---- MODULE Spec2Model ----
(***************************************************************************)
(* Docker MCP Server: the session configuration store, the resolver of the *)
(* effective Docker host, the single-target client behind withTimeout and  *)
(* the multi-source client (registry and aggregator).                      *)
(*                                                                         *)
(* Strings the code parses (addresses) are sequences of one-character      *)
(* strings; null is a one-element sequence no real string can equal.       *)
(***************************************************************************)
EXTENDS Integers, Sequences, FiniteSets, TLC

(* ------------------------------ bounds -------------------------------- *)
MaxTime == 10000
TickMs == 10000
MaxListeners == 3
MaxProbes == 1
MaxAbandoned == 1
MaxHeld == 2
MaxExp == 5

(* --------------------------- program constants ------------------------ *)
DEFAULT_TIMEOUT == 10000

(* ------------------------------ strings ------------------------------- *)
null == <<"null">>
NullDate == -1
EmptyStr == <<>>
TCP == <<"t", "c", "p", ":", "/", "/">>
AddrA == TCP \o <<"a", ":", "1">>
AddrB == TCP \o <<"b", ":", "2">>
AddrE == TCP \o <<"e", ":", "3">>
NoScheme == <<"a", ":", "1">>
NoPort == TCP \o <<"a">>
Digits == {"0", "1", "2", "3", "4", "5", "6", "7", "8", "9"}

Truthy(s) == s # null /\ s # EmptyStr

startsWith(s, p) == Len(s) >= Len(p) /\ SubSeq(s, 1, Len(p)) = p

Min(a, b) == IF a <= b THEN a ELSE b

DigitVal(c) ==
    CASE c = "0" -> 0 [] c = "1" -> 1 [] c = "2" -> 2 [] c = "3" -> 3
      [] c = "4" -> 4 [] c = "5" -> 5 [] c = "6" -> 6 [] c = "7" -> 7
      [] c = "8" -> 8 [] OTHER -> 9

RECURSIVE parseInt(_)
parseInt(ds) ==
    IF ds = <<>> THEN 0
    ELSE 10 * parseInt(SubSeq(ds, 1, Len(ds) - 1)) + DigitVal(ds[Len(ds)])

(* /tcp:\/\/([^:]+):(\d+)/ tried at position i: the host runs to the first *)
(* colon after the scheme and is not empty, the port is the longest run of *)
(* digits after that colon and is not empty.                               *)
FirstColon(s, from) ==
    IF \E j \in from..Len(s) : s[j] = ":"
    THEN CHOOSE j \in from..Len(s) : s[j] = ":" /\ \A k \in from..(j - 1) : s[k] # ":"
    ELSE 0

DigitsEnd(s, from) ==
    CHOOSE e \in (from - 1)..Len(s) :
        /\ \A k \in from..e : s[k] \in Digits
        /\ (e = Len(s) \/ s[e + 1] \notin Digits)

MatchAt(s, i) ==
    /\ i + 5 <= Len(s)
    /\ SubSeq(s, i, i + 5) = TCP
    /\ LET j == FirstColon(s, i + 6)
       IN /\ j > i + 6
          /\ j + 1 <= Len(s)
          /\ s[j + 1] \in Digits

TcpMatch(s) ==
    IF s # null /\ \E i \in 1..Len(s) : MatchAt(s, i)
    THEN LET i == CHOOSE i \in 1..Len(s) : MatchAt(s, i) /\ \A k \in 1..(i - 1) : ~MatchAt(s, k)
             j == FirstColon(s, i + 6)
         IN [matched |-> TRUE,
             host |-> SubSeq(s, i + 6, j - 1),
             port |-> SubSeq(s, j + 1, DigitsEnd(s, j + 1))]
    ELSE [matched |-> FALSE, host |-> <<>>, port |-> <<>>]

parseDockerHost(dockerHost) ==
    LET m == TcpMatch(dockerHost)
    IN IF m.matched
       THEN [host |-> m.host, port |-> parseInt(m.port), ok |-> TRUE]
       ELSE [host |-> <<>>, port |-> 0, ok |-> FALSE]

createDockerClient(dockerHost) == parseDockerHost(dockerHost)

(* ------------------------- process environment ------------------------ *)
(* An unset variable and one set to "" behave alike in every read below    *)
(* (|| and ?.), so "" stands for both.                                     *)
EnvNone ==
    [DOCKER_HOST |-> EmptyStr, ALLOW_LOCAL_DOCKER |-> "", SECURITY_MODE |-> "",
     SECURITY_AUDIT_LOG |-> "", LOG_LEVEL |-> ""]

EnvLocal ==
    [DOCKER_HOST |-> EmptyStr, ALLOW_LOCAL_DOCKER |-> "true", SECURITY_MODE |-> "",
     SECURITY_AUDIT_LOG |-> "", LOG_LEVEL |-> ""]

EnvBoth ==
    [DOCKER_HOST |-> AddrE, ALLOW_LOCAL_DOCKER |-> "TRUE", SECURITY_MODE |-> "readwrite",
     SECURITY_AUDIT_LOG |-> "False", LOG_LEVEL |-> "debug"]

Envs == {EnvNone, EnvLocal, EnvBoth}

toLowerCase(s) ==
    CASE s = "TRUE" -> "true" [] s = "False" -> "false" [] OTHER -> s

VARIABLES
    env,            \* process.env, fixed at process start
    now,            \* the wall clock read by new Date() and by the timers
    config,         \* SessionConfigManager.config
    listeners,      \* SessionConfigManager.listeners, one kind per subscription
    notifyLog,      \* the invocations made by the last notifyListeners
    storeCall,      \* the last call of the store and how it ended
    sources,        \* MultiDockerClient.sources
    allowLocal,     \* MultiDockerClient.allowLocal
    remoteHost,     \* MultiDockerClient.remoteHost
    initialized,    \* MultiDockerClient.initialized
    initPromise,    \* MultiDockerClient.initPromise: 0 is null, else a probe
    lastConfigHash, \* MultiDockerClient.lastConfigHash
    probes,         \* the initializeLocalSource calls whose ping has not settled
    localProbe,     \* the initializeLocalSource call of the latest (re)build, and its ping
    mq,             \* the caller of the multi-source client and its position
    sq,             \* the caller of the single-target client and its position
    abandoned,      \* backend calls withTimeout gave up on, still running
    held,           \* the configuration objects callers got from getConfig
    tool,           \* the last docker_set_connection request and its response
    rpc,            \* the last tools/call request and where the server took it
    calc            \* the last call of a formatter: its input and what it returned

storeVars == <<config, listeners, notifyLog, storeCall>>
registryVars == <<sources, allowLocal, remoteHost, initialized, initPromise, lastConfigHash, probes,
                  localProbe>>
vars == <<env, now, config, listeners, notifyLog, storeCall, sources, allowLocal, remoteHost,
          initialized, initPromise, lastConfigHash, probes, localProbe, mq, sq, abandoned, held,
          tool, rpc, calc>>

(* ===================== SessionConfigManager ============================ *)
EnvConfig(e, at, by) ==
    [dockerHost |-> IF Truthy(e.DOCKER_HOST) THEN e.DOCKER_HOST ELSE null,
     allowLocal |-> toLowerCase(e.ALLOW_LOCAL_DOCKER) = "true",
     securityMode |-> IF e.SECURITY_MODE # "" THEN e.SECURITY_MODE ELSE "readonly",
     auditLog |-> toLowerCase(e.SECURITY_AUDIT_LOG) # "false",
     logLevel |-> IF e.LOG_LEVEL # "" THEN e.LOG_LEVEL ELSE "info",
     configuredAt |-> at,
     configuredBy |-> by]

EnvConfigured(e) == Truthy(e.DOCKER_HOST) \/ e.ALLOW_LOCAL_DOCKER # ""

constructorConfig(e, t) ==
    EnvConfig(e, IF EnvConfigured(e) THEN t ELSE NullDate,
                 IF EnvConfigured(e) THEN "env" ELSE "null")

getConfig == config

(* An object a caller holds: its field values now (val) and when it was    *)
(* returned (got), whether it is the very object the store keeps in        *)
(* this.config (live) or an object of its own, and whether no mutator has  *)
(* run since it was returned (fresh).                                      *)
(* mutant of SnapshotOf: getConfig returns this.config itself *)
SnapshotOf_Live(c) == [live |-> TRUE, val |-> c, got |-> c, fresh |-> TRUE]

(* { ...this.config }: a new object with the fields of this.config *)
SnapshotOf(c) == [live |-> FALSE, val |-> c, got |-> c, fresh |-> TRUE]

(* listener(this.config): the listener is called with the object the     *)
(* store keeps                                                             *)
ListenerArg(c) == [live |-> TRUE, val |-> c, got |-> c, fresh |-> TRUE]

AfterMutator(hs) == [i \in 1..Len(hs) |-> [hs[i] EXCEPT !.fresh = FALSE]]

(* an assignment made in place to this.config shows in every live object *)
SyncLive(hs, c) == [i \in 1..Len(hs) |-> IF hs[i].live THEN [hs[i] EXCEPT !.val = c] ELSE hs[i]]

(* this.config = {...} leaves the old object to those who hold it *)
Detach(hs) == [i \in 1..Len(hs) |-> [hs[i] EXCEPT !.live = FALSE]]

getDockerHost == config.dockerHost

ObjectAssign(target, updates) ==
    [k \in DOMAIN target |-> IF k \in DOMAIN updates THEN updates[k] ELSE target[k]]

Stamp(c, t) == [c EXCEPT !.configuredAt = t, !.configuredBy = "session"]

(* ===================== MultiDockerClient: registry ===================== *)
BoolStr(b) == IF b THEN <<"t", "r", "u", "e">> ELSE <<"f", "a", "l", "s", "e">>

(* mutant of getConfigHash: the hash leaves allowLocal out *)
getConfigHash_HostOnly(c) ==
    (IF Truthy(c.dockerHost) THEN c.dockerHost ELSE EmptyStr) \o <<"_">>

getConfigHash(c) ==
    (IF Truthy(c.dockerHost) THEN c.dockerHost ELSE EmptyStr) \o <<"_">> \o BoolStr(c.allowLocal)

RemoteSource(m) ==
    [host |-> m.host \o <<":">> \o m.port, name |-> "Aliyun ECS", type |-> "remote",
     status |-> "disconnected", error |-> ""]

LocalSource ==
    [host |-> <<"l", "o", "c", "a", "l">>, name |-> "Local Docker Desktop", type |-> "local",
     status |-> "connected", error |-> ""]

initializeRemoteSources(rh) ==
    IF Truthy(rh) /\ TcpMatch(rh).matched THEN <<RemoteSource(TcpMatch(rh))>> ELSE <<>>

(* mutant of initializeLocalSource: a failed ping registers the source with *)
(* an error status                                                         *)
initializeLocalSource_RegisterFailed(srcs, ok) ==
    IF ok THEN Append(srcs, LocalSource)
    ELSE Append(srcs, [LocalSource EXCEPT !.status = "error", !.error = "connect failed"])

(* initializeLocalSource once its ping has settled: the source is pushed   *)
(* when the ping succeeded, and nothing is when it failed                  *)
initializeLocalSource(srcs, ok) == IF ok THEN Append(srcs, LocalSource) ELSE srcs

FreshProbe == CHOOSE p \in 1..(MaxProbes + 1) : p \notin probes

(* the call of initializeLocalSource a (re)build made, if it made one *)
NoProbe == [id |-> 0, ping |-> "none"]

Started(p) == [id |-> p, ping |-> "pending"]

(* reinitialize, for the remoteHost and allowLocal just assigned: the     *)
(* registry is emptied and refilled, and the local probe, when allowed,    *)
(* issues its ping at once and is left pending.                            *)
reinitialize(rh, al) ==
    /\ sources' = initializeRemoteSources(rh)
    /\ initialized' = FALSE
    /\ IF al
       THEN /\ initPromise' = FreshProbe
            /\ probes' = probes \cup {FreshProbe}
            /\ localProbe' = Started(FreshProbe)
       ELSE /\ initPromise' = 0
            /\ probes' = probes
            /\ localProbe' = NoProbe

handleConfigChange(newConfig) ==
    LET newHash == getConfigHash(newConfig)
    IN IF newHash # lastConfigHash
       THEN /\ lastConfigHash' = newHash
            /\ allowLocal' = newConfig.allowLocal
            /\ remoteHost' = (IF Truthy(newConfig.dockerHost) THEN newConfig.dockerHost ELSE EmptyStr)
            /\ reinitialize(IF Truthy(newConfig.dockerHost) THEN newConfig.dockerHost ELSE EmptyStr,
                            newConfig.allowLocal)
       ELSE UNCHANGED registryVars

(* ===================== notifyListeners ================================= *)
(* Every subscription is invoked in order with the live configuration; a   *)
(* throw is caught inside the loop.  A recorder only looks at what it is   *)
(* given, a thrower looks and throws, the client runs handleConfigChange.  *)
Invocation(k, c) == [kind |-> k, seen |-> c, threw |-> (k = "thrower")]

(* mutant of notifyListeners: the loop ends at the first listener that throws *)
notifyListeners_StopAtThrow(ls, c) ==
    LET stop == IF \E i \in 1..Len(ls) : ls[i] = "thrower"
                THEN CHOOSE i \in 1..Len(ls) :
                        ls[i] = "thrower" /\ \A k \in 1..(i - 1) : ls[k] # "thrower"
                ELSE Len(ls)
    IN [i \in 1..stop |-> Invocation(ls[i], c)]

notifyListeners(ls, c) == [i \in 1..Len(ls) |-> Invocation(ls[i], c)]

(* a keeper is a listener that keeps the object it was called with *)
Retain(ls, hs, c) ==
    IF (\E i \in 1..Len(ls) : ls[i] = "keeper") /\ Len(hs) < MaxHeld
    THEN Append(hs, ListenerArg(c))
    ELSE hs

RunClientListener(ls, c) ==
    IF \E i \in 1..Len(ls) : ls[i] = "client"
    THEN handleConfigChange(c)
    ELSE UNCHANGED registryVars

(* a mutator once it has computed the new configuration c from arg *)
Publish(name, arg, c) ==
    /\ config' = c
    /\ notifyLog' = notifyListeners(listeners, c)
    /\ RunClientListener(listeners, c)
    /\ storeCall' = [arg |-> arg, op |-> name, ended |-> "returned"]
    /\ held' = Retain(listeners,
                      AfterMutator(IF name = "resetToEnv" THEN Detach(held) ELSE SyncLive(held, c)),
                      c)
    /\ UNCHANGED <<env, rpc, calc, tool, now, listeners, mq, sq, abandoned>>

WillProbe(c) == c.allowLocal /\ getConfigHash(c) # lastConfigHash

CanPublish(c) == WillProbe(c) => Cardinality(probes) < MaxProbes

HostInputs == {null, AddrA, AddrB, NoScheme}

UpdateInputs ==
    { [securityMode |-> "readwrite", auditLog |-> FALSE, logLevel |-> "error"],
      [dockerHost |-> AddrB, allowLocal |-> TRUE] }

EnvFields(e) ==
    [k \in {"dockerHost", "allowLocal", "securityMode", "auditLog", "logLevel"} |->
        EnvConfig(e, NullDate, "env")[k]]

(* mutant of setDockerHost: the listeners are notified before the stamp *)
setDockerHost_NotifyFirst(host) ==
    LET u == [config EXCEPT !.dockerHost = host]
        c == Stamp(u, now)
    IN /\ CanPublish(c)
       /\ config' = c
       /\ notifyLog' = notifyListeners(listeners, u)
       /\ RunClientListener(listeners, u)
       /\ storeCall' = [arg |-> [dockerHost |-> host], op |-> "setDockerHost", ended |-> "returned"]
       /\ UNCHANGED <<env, rpc, calc, tool, held, now, listeners, mq, sq, abandoned>>

setDockerHost(host) ==
    LET c == Stamp([config EXCEPT !.dockerHost = host], now)
    IN CanPublish(c) /\ Publish("setDockerHost", [dockerHost |-> host], c)

setAllowLocal(allow) ==
    LET c == Stamp([config EXCEPT !.allowLocal = allow], now)
    IN CanPublish(c) /\ Publish("setAllowLocal", [allowLocal |-> allow], c)

setMultiple(updates) ==
    LET c == Stamp(ObjectAssign(config, updates), now)
    IN CanPublish(c) /\ Publish("setMultiple", updates, c)

(* mutant of resetToEnv: only the connection fields are rebuilt *)
resetToEnv_ConnectionOnly ==
    LET e == EnvConfig(env, now, "env")
        c == [config EXCEPT !.dockerHost = e.dockerHost, !.allowLocal = e.allowLocal,
                            !.configuredAt = now, !.configuredBy = "env"]
    IN CanPublish(c) /\ Publish("resetToEnv", EnvFields(env), c)

resetToEnv ==
    LET c == EnvConfig(env, now, "env")
    IN CanPublish(c) /\ Publish("resetToEnv", EnvFields(env), c)

addListener(k) ==
    /\ Len(listeners) < MaxListeners
    /\ listeners' = Append(listeners, k)
    /\ UNCHANGED <<env, rpc, calc, tool, held, now, config, notifyLog, storeCall, registryVars, mq, sq, abandoned>>

(* a caller reads the configuration and keeps what getConfig returned *)
getConfigCall ==
    /\ Len(held) < MaxHeld
    /\ held' = Append(held, SnapshotOf(getConfig))
    /\ UNCHANGED <<env, rpc, calc, tool, now, storeVars, registryVars, mq, sq, abandoned>>

HeldWrites == {[dockerHost |-> AddrB], [allowLocal |-> TRUE, configuredBy |-> "caller"]}

(* a caller assigns to fields of an object it holds: the assignment lands  *)
(* in that object, which is this.config too when the object is live; no    *)
(* method of the store runs.                                               *)
WriteHeld(i, w) ==
    /\ i \in 1..Len(held)
    /\ ObjectAssign(held[i].val, w) # held[i].val
    /\ IF held[i].live
       THEN /\ config' = ObjectAssign(config, w)
            /\ held' = SyncLive(held, ObjectAssign(config, w))
       ELSE /\ config' = config
            /\ held' = [held EXCEPT ![i].val = ObjectAssign(held[i].val, w)]
    /\ UNCHANGED <<env, rpc, calc, tool, now, listeners, notifyLog, storeCall, registryVars, mq, sq, abandoned>>

(* removeListener(l): filter keeps every subscription that is not l; the   *)
(* subscriptions of one kind stand for one listener function.              *)
removeListener(k) ==
    /\ \E i \in 1..Len(listeners) : listeners[i] = k
    /\ listeners' = SelectSeq(listeners, LAMBDA l : l # k)
    /\ UNCHANGED <<env, rpc, calc, tool, held, now, config, notifyLog, storeCall, registryVars, mq, sq, abandoned>>

(* ===================== docker_set_connection =========================== *)
Letters ==
    {"a", "b", "c", "d", "e", "f", "g", "h", "i", "j", "k", "l", "m", "n", "o", "p", "q", "r",
     "s", "t", "u", "v", "w", "x", "y", "z"}

WordChars == Letters \cup Digits \cup {"_"}

AllIn(s, cs) == \A i \in 1..Len(s) : s[i] \in cs

(* /^tcp:\/\/[\w.-]+:\d+$/ : the class holds no colon, so the host runs to  *)
(* the first colon after the scheme and the port is all that follows it.   *)
tcpPattern(s) ==
    /\ startsWith(s, TCP)
    /\ LET j == FirstColon(s, 7)
       IN /\ j > 7
          /\ AllIn(SubSeq(s, 7, j - 1), WordChars \cup {".", "-"})
          /\ j < Len(s)
          /\ AllIn(SubSeq(s, j + 1, Len(s)), Digits)

RECURSIVE split(_, _)
split(s, sep) ==
    IF \E i \in 1..Len(s) : s[i] = sep
    THEN LET i == CHOOSE i \in 1..Len(s) : s[i] = sep /\ \A k \in 1..(i - 1) : s[k] # sep
         IN <<SubSeq(s, 1, i - 1)>> \o split(SubSeq(s, i + 1, Len(s)), sep)
    ELSE <<s>>

(* /^(\d{1,3}\.){3}\d{1,3}$/ *)
ipOnlyPattern(s) ==
    LET g == split(s, ".")
    IN Len(g) = 4 /\ \A i \in 1..4 : Len(g[i]) \in 1..3 /\ AllIn(g[i], Digits)

(* /^(\d{1,3}\.){3}\d{1,3}:\d+$/ *)
ipWithPortPattern(s) ==
    LET j == FirstColon(s, 1)
    IN /\ j > 1
       /\ ipOnlyPattern(SubSeq(s, 1, j - 1))
       /\ j < Len(s)
       /\ AllIn(SubSeq(s, j + 1, Len(s)), Digits)

(* argument values: a JSON value with its type *)
JsString(v) == [t |-> "string", v |-> v]
JsBoolean(v) == [t |-> "boolean", v |-> v]

(* SetConnectionSchema.parse: every field is optional and typed *)
SchemaOk(args) ==
    /\ "docker_host" \in DOMAIN args => args.docker_host.t = "string"
    /\ "allow_local" \in DOMAIN args => args.allow_local.t = "boolean"
    /\ "security_mode" \in DOMAIN args =>
          (args.security_mode.t = "string" /\ args.security_mode.v \in {"readonly", "readwrite"})
    /\ "audit_log" \in DOMAIN args => args.audit_log.t = "boolean"
    /\ "log_level" \in DOMAIN args =>
          (args.log_level.t = "string" /\ args.log_level.v \in {"debug", "info", "warn", "error"})

NullWord == <<"n", "u", "l", "l">>
DefaultPort == <<"2", "3", "7", "5">>

NoSuggestion == <<>>

Rejection(kind, suggestion) ==
    [error |-> kind, suggestion |-> suggestion, success |-> FALSE]

(* mutant of HostVerdict: a bare IP is completed to its suggestion and stored *)
HostVerdict_AutoComplete(h) ==
    IF h = EmptyStr \/ h = NullWord THEN [accept |-> TRUE, store |-> null]
    ELSE IF tcpPattern(h) THEN [accept |-> TRUE, store |-> h]
    ELSE IF ipOnlyPattern(h)
         THEN [accept |-> TRUE, store |-> TCP \o h \o <<":">> \o DefaultPort]
    ELSE IF ipWithPortPattern(h)
         THEN [accept |-> TRUE, store |-> TCP \o h]
    ELSE [accept |-> FALSE, response |-> Rejection("format error", NoSuggestion)]

(* the verdict on a docker_host that is given: cleared, accepted or one of *)
(* the three rejections                                                    *)
HostVerdict(h) ==
    IF h = EmptyStr \/ h = NullWord THEN [accept |-> TRUE, store |-> null]
    ELSE IF tcpPattern(h) THEN [accept |-> TRUE, store |-> h]
    ELSE IF ipOnlyPattern(h)
         THEN [accept |-> FALSE,
               response |-> Rejection("ip only", TCP \o h \o <<":">> \o DefaultPort)]
    ELSE IF ipWithPortPattern(h)
         THEN [accept |-> FALSE, response |-> Rejection("missing tcp:// prefix", TCP \o h)]
    ELSE [accept |-> FALSE, response |-> Rejection("format error", NoSuggestion)]

(* the setter calls of an accepted request, in the order they are made *)
SetterCalls(args) ==
    (IF "docker_host" \in DOMAIN args
     THEN <<[arg |-> [dockerHost |-> HostVerdict(args.docker_host.v).store], op |-> "setDockerHost"]>>
     ELSE <<>>)
    \o (IF "allow_local" \in DOMAIN args
        THEN <<[arg |-> [allowLocal |-> args.allow_local.v], op |-> "setAllowLocal"]>>
        ELSE <<>>)
    \o (IF {"security_mode", "audit_log", "log_level"} \cap DOMAIN args # {}
        THEN <<[arg |-> [k \in {f \in {"securityMode", "auditLog", "logLevel"} :
                                  (CASE f = "securityMode" -> "security_mode"
                                     [] f = "auditLog" -> "audit_log"
                                     [] OTHER -> "log_level") \in DOMAIN args} |->
                            CASE k = "securityMode" -> args.security_mode.v
                              [] k = "auditLog" -> args.audit_log.v
                              [] OTHER -> args.log_level.v],
                op |-> "setMultiple"]>>
        ELSE <<>>)

(* the registry as one value, and handleConfigChange as a function of it,  *)
(* for a handler that makes several setter calls in a row                  *)
Registry ==
    [sources |-> sources, allowLocal |-> allowLocal, remoteHost |-> remoteHost,
     initialized |-> initialized, initPromise |-> initPromise,
     lastConfigHash |-> lastConfigHash, probes |-> probes, localProbe |-> localProbe]

ConfigChanged(r, c) ==
    LET rh == IF Truthy(c.dockerHost) THEN c.dockerHost ELSE EmptyStr
        fresh == CHOOSE q \in 1..(Cardinality(r.probes) + 1) : q \notin r.probes
    IN IF getConfigHash(c) # r.lastConfigHash
       THEN [sources |-> initializeRemoteSources(rh), allowLocal |-> c.allowLocal,
             remoteHost |-> rh, initialized |-> FALSE,
             initPromise |-> IF c.allowLocal THEN fresh ELSE 0,
             lastConfigHash |-> getConfigHash(c),
             probes |-> IF c.allowLocal THEN r.probes \cup {fresh} ELSE r.probes,
             localProbe |-> IF c.allowLocal THEN Started(fresh) ELSE NoProbe]
       ELSE r

(* the store, its log and the registry after the setter calls cs *)
RECURSIVE AfterCalls(_, _)
AfterCalls(st, cs) ==
    IF cs = <<>> THEN st
    ELSE LET c == Stamp(ObjectAssign(st.config, cs[1].arg), now)
         IN AfterCalls([config |-> c,
                        log |-> notifyListeners(listeners, c),
                        call |-> [arg |-> cs[1].arg, op |-> cs[1].op, ended |-> "returned"],
                        reg |-> IF \E i \in 1..Len(listeners) : listeners[i] = "client"
                                THEN ConfigChanged(st.reg, c) ELSE st.reg,
                        made |-> Append(st.made, cs[1].op)],
                       Tail(cs))

ToolIdle == [args |-> <<>>, response |-> Rejection("none", NoSuggestion), made |-> <<>>]

Accepted(st) ==
    [error |-> "", suggestion |-> NoSuggestion,
     success |-> TRUE,
     current_config |-> [k \in {"dockerHost", "allowLocal", "securityMode", "auditLog", "logLevel"} |->
                            st.config[k]]]

(* handleSetConnection: parse, validate docker_host, then the setters *)
handleSetConnection(args) ==
    LET st0 == [config |-> config, log |-> notifyLog, call |-> storeCall, reg |-> Registry,
                made |-> <<>>]
        rejected == ~SchemaOk(args)
                    \/ ("docker_host" \in DOMAIN args /\ ~HostVerdict(args.docker_host.v).accept)
        st == IF rejected THEN st0 ELSE AfterCalls(st0, SetterCalls(args))
    IN /\ Cardinality(st.reg.probes) <= MaxProbes
       /\ config' = st.config
       /\ notifyLog' = st.log
       /\ storeCall' = st.call
       /\ sources' = st.reg.sources
       /\ allowLocal' = st.reg.allowLocal
       /\ remoteHost' = st.reg.remoteHost
       /\ initialized' = st.reg.initialized
       /\ initPromise' = st.reg.initPromise
       /\ lastConfigHash' = st.reg.lastConfigHash
       /\ probes' = st.reg.probes
       /\ localProbe' = st.reg.localProbe
       /\ held' = (IF st.made = <<>> THEN held ELSE AfterMutator(SyncLive(held, st.config)))
       /\ tool' = [args |-> args,
                   response |-> IF ~SchemaOk(args) THEN Rejection("schema", NoSuggestion)
                                ELSE IF rejected THEN HostVerdict(args.docker_host.v).response
                                ELSE Accepted(st),
                   made |-> st.made]
       /\ UNCHANGED <<env, rpc, calc, now, listeners, mq, sq, abandoned>>

(* ===================== formatters ====================================== *)
(* Decimal results are kept in hundredths, which is what two-decimal       *)
(* rounding leaves.                                                        *)
(* Math.round(x * 100) / 100 for x = n / d, d > 0: the half goes up *)
MathRound2(n, d) == (200 * n + d) \div (2 * d)

(* x.toFixed(2) for x = n / d, d > 0: the half goes away from zero *)
toFixed2(n, d) == IF n >= 0 THEN (200 * n + d) \div (2 * d) ELSE 0 - ((200 * (0 - n) + d) \div (2 * d))

(* mutant of formatStats: the deltas are taken previous - current *)
formatStats_PreviousFirst(stats) ==
    LET cpuDelta == stats.pre_total - stats.cpu_total
        systemDelta == stats.pre_system - stats.cpu_system
    IN [cpuPercent |-> IF systemDelta > 0 THEN MathRound2(cpuDelta * 100, systemDelta) ELSE 0]

(* formatStats of the multi-source client, its CPU part *)
formatStats(stats) ==
    LET cpuDelta == stats.cpu_total - stats.pre_total
        systemDelta == stats.cpu_system - stats.pre_system
    IN [cpuPercent |-> IF systemDelta > 0 THEN MathRound2(cpuDelta * 100, systemDelta) ELSE 0]

(* getContainerStats of the single-target client, its CPU part *)
singleCpuPercent(stats) ==
    LET cpuDelta == stats.cpu_total - stats.pre_total
        systemDelta == stats.cpu_system - stats.pre_system
    IN [cpuPercent |-> IF systemDelta > 0 THEN toFixed2(cpuDelta * 100, systemDelta) ELSE 0,
        unit |-> "%"]

(* A byte count is top * 1024^exp + next * 1024^(exp - 1), 1 <= top < 1024 *)
(* (next = 0 when exp = 0), or zero: counts of two base-1024 digits, whose *)
(* quotient by a power of 1024 is exact.                                   *)
ZeroBytes == [top |-> 0, next |-> 0, exp |-> 0]

sizes == <<"B", "KB", "MB", "GB", "TB">>

(* parseFloat of a two-decimal text: trailing zeros of the fraction go *)
parseFloat2(h) ==
    [int |-> h \div 100,
     frac |-> IF h % 100 = 0 THEN <<>>
              ELSE IF h % 10 = 0 THEN <<(h % 100) \div 10>>
              ELSE <<(h % 100) \div 10, h % 10>>]

formatBytes(bytes) ==
    IF bytes = ZeroBytes THEN [unit |-> "B", number |-> parseFloat2(0)]
    ELSE LET i == bytes.exp
         IN [unit |-> IF i + 1 \in DOMAIN sizes THEN sizes[i + 1] ELSE "undefined",
             number |-> parseFloat2(toFixed2(1024 * bytes.top + bytes.next, 1024))]

CalcIdle == [fn |-> "none", input |-> ZeroBytes, output |-> ZeroBytes]

UsageSamples == {0, 1, 20, 50}
SystemSamples == {0, 3, 200}

StatsInputs ==
    [cpu_total : UsageSamples, pre_total : UsageSamples,
     cpu_system : SystemSamples, pre_system : SystemSamples]

ByteInputs ==
    {ZeroBytes}
    \cup [top : {1, 2, 1023}, next : {0}, exp : 0..MaxExp]
    \cup [top : {1, 2, 1023}, next : {10, 512, 1023}, exp : 1..MaxExp]

Calculated(fn, input, output) ==
    /\ calc' = [fn |-> fn, input |-> input, output |-> output]
    /\ UNCHANGED <<env, rpc, tool, held, now, storeVars, registryVars, mq, sq, abandoned>>

formatStatsCall(stats) == Calculated("formatStats", stats, formatStats(stats))

singleStatsCall(stats) == Calculated("getContainerStats", stats, singleCpuPercent(stats))

formatBytesCall(bytes) == Calculated("formatBytes", bytes, formatBytes(bytes))

(* ===================== backend behaviour =============================== *)
(* What one outbound call can do: answer well, answer with a payload the   *)
(* formatter cannot read, refuse the connection, answer 404, fail with a   *)
(* socket timeout; or never settle, which is no outcome at all.            *)
Outcomes == {"ok", "malformed", "refused", "notfound", "etimedout"}

BackendError(o) ==
    CASE o = "refused" -> [statusCode |-> 0, code |-> "ECONNREFUSED",
                           message |-> [text |-> "connect ECONNREFUSED", operation |-> "", seconds |-> 0]]
      [] o = "notfound" -> [statusCode |-> 404, code |-> "",
                            message |-> [text |-> "no such object", operation |-> "", seconds |-> 0]]
      [] o = "etimedout" -> [statusCode |-> 0, code |-> "ETIMEDOUT",
                             message |-> [text |-> "connect ETIMEDOUT", operation |-> "", seconds |-> 0]]
      [] OTHER -> [statusCode |-> 0, code |-> "",
                   message |-> [text |-> "TypeError: cannot read properties of undefined",
                                operation |-> "", seconds |-> 0]]

Msg(t) == [text |-> t, operation |-> "", seconds |-> 0]

(* ===================== single-target client ============================ *)
SingleOps == {"getConnectionStatus", "listContainers", "inspectContainer", "getContainerLogs",
              "getContainerStats", "listImages", "inspectImage"}

ByIdOps == {"inspectContainer", "getContainerLogs", "getContainerStats", "inspectImage"}

OperationLabel(op) ==
    CASE op = "getConnectionStatus" -> "connection test"
      [] op = "listContainers" -> "list containers"
      [] op = "inspectContainer" -> "inspect container"
      [] op = "getContainerLogs" -> "container logs"
      [] op = "getContainerStats" -> "container stats"
      [] op = "listImages" -> "list images"
      [] OTHER -> "inspect image"

(* the rejection of the deadline timer inside withTimeout *)
TimeoutError(timeoutMs, operation) ==
    [statusCode |-> 0, code |-> "",
     message |-> [text |-> "timeout", operation |-> operation, seconds |-> timeoutMs \div 1000]]

(* mutants of getEffectiveDockerHost: the session default consulted before *)
(* the argument; no fallback to the environment.                           *)
getEffectiveDockerHost_SessionFirst(paramHost) ==
    IF Truthy(getDockerHost) THEN getDockerHost
    ELSE IF Truthy(paramHost) /\ startsWith(paramHost, TCP) THEN paramHost
    ELSE IF Truthy(env.DOCKER_HOST) THEN env.DOCKER_HOST
    ELSE null

getEffectiveDockerHost_NoEnv(paramHost) ==
    IF Truthy(paramHost) /\ startsWith(paramHost, TCP) THEN paramHost
    ELSE IF Truthy(getDockerHost) THEN getDockerHost
    ELSE null

getEffectiveDockerHost(paramHost) ==
    IF Truthy(paramHost) /\ startsWith(paramHost, TCP) THEN paramHost
    ELSE IF Truthy(getDockerHost) THEN getDockerHost
    ELSE IF Truthy(env.DOCKER_HOST) THEN env.DOCKER_HOST
    ELSE null

NotConfigured == [host |-> null, error |-> Msg("docker connection not configured"),
                  success |-> FALSE, prefix |-> "", data |-> "none"]

InvalidAddress(h) == [host |-> h, error |-> Msg("invalid docker address"),
                      success |-> FALSE, prefix |-> "", data |-> "none"]

(* a call ends: it returns its result, or an exception leaves the method *)
Ended(r) == IF r.prefix = "uncaught" THEN "threw" ELSE "returned"

Thrown(err) == [host |-> null, error |-> err.message, success |-> FALSE, prefix |-> "uncaught",
                data |-> "none"]

(* the catch block of each operation *)
SingleCatch(op, err, h) ==
    [host |-> h,
     error |-> IF op \in ByIdOps /\ err.statusCode = 404 THEN Msg("does not exist") ELSE err.message,
     success |-> FALSE,
     prefix |-> CASE op = "getConnectionStatus" -> "connect failed: "
                  [] op \in {"listContainers", "listImages"} -> "query failed: "
                  [] OTHER -> "",
     data |-> "none"]

(* mutant of SingleTry: the payload is formatted after the try block *)
SingleTry_FormatOutside(op, o, h) ==
    IF o = "ok" \/ (o = "malformed" /\ op = "getConnectionStatus")
    THEN [host |-> h, error |-> Msg(""), success |-> TRUE, prefix |-> "", data |-> "formatted"]
    ELSE IF o = "malformed" THEN Thrown(BackendError(o))
    ELSE SingleCatch(op, BackendError(o), h)

(* the try block after the awaited call has settled with outcome o: a     *)
(* rejection and a throw of the formatting both land in the catch block.  *)
SingleTry(op, o, h) ==
    IF o = "ok" \/ (o = "malformed" /\ op = "getConnectionStatus")
    THEN [host |-> h, error |-> Msg(""), success |-> TRUE, prefix |-> "", data |-> "formatted"]
    ELSE SingleCatch(op, BackendError(o), h)

NoTimer == -1

(* the caller's position: the argument, the session default and the       *)
(* effective host of the call, the deadline of the armed timer, whether a  *)
(* request was issued to the backend, and how the call ended.              *)
SqIdle == [host |-> null, session |-> null, op |-> "none", param |-> null, state |-> "idle",
           start |-> 0, timer |-> NoTimer, contacted |-> FALSE, outcome |-> "none",
           result |-> NotConfigured]

(* mutant of withTimeoutTimer: the call is awaited with no timer armed *)
withTimeoutTimer_Unarmed(t, timeoutMs) == NoTimer

(* withTimeout arms its timer when it is called *)
withTimeoutTimer(t, timeoutMs) == t + timeoutMs

(* mutant of clearTimeout: the timer is left armed *)
clearTimeout_Leak(timer) == timer

(* clearTimeout(timeoutId) in both branches of withTimeout *)
clearTimeout(timer) == NoTimer

ParamInputs == {null, AddrA, AddrB, NoScheme, NoPort}

SingleCall(op, paramHost) ==
    /\ sq.state \in {"idle", "returned", "threw"}
    /\ abandoned < MaxAbandoned
    /\ LET effectiveHost == getEffectiveDockerHost(paramHost)
           base == [SqIdle EXCEPT !.op = op, !.param = paramHost, !.session = getDockerHost,
                                  !.host = effectiveHost, !.start = now]
       IN sq' = IF ~Truthy(effectiveHost)
                THEN [base EXCEPT !.state = "returned", !.result = NotConfigured]
                ELSE IF ~createDockerClient(effectiveHost).ok
                THEN [base EXCEPT !.state = "returned", !.result = InvalidAddress(effectiveHost)]
                ELSE [base EXCEPT !.state = "pending", !.contacted = TRUE,
                                  !.timer = withTimeoutTimer(now, DEFAULT_TIMEOUT)]
    /\ UNCHANGED <<env, rpc, calc, tool, held, now, storeVars, registryVars, mq, abandoned>>

(* withTimeout: the awaited call settles first *)
SingleSettle(o) ==
    /\ sq.state = "pending"
    /\ sq' = [sq EXCEPT !.state = Ended(SingleTry(sq.op, o, sq.host)), !.timer = clearTimeout(sq.timer),
                        !.outcome = o, !.result = SingleTry(sq.op, o, sq.host)]
    /\ UNCHANGED <<env, rpc, calc, tool, held, now, storeVars, registryVars, mq, abandoned>>

(* withTimeout: the clock reaches the deadline with the call unsettled and *)
(* the timer fires; the call is left running.                              *)
SingleTimeout ==
    /\ sq.state = "pending"
    /\ sq.timer # NoTimer
    /\ sq.timer <= MaxTime
    /\ sq.timer <= now + TickMs
    /\ now' = sq.timer
    /\ LET r == SingleCatch(sq.op, TimeoutError(DEFAULT_TIMEOUT, OperationLabel(sq.op)), sq.host)
       IN sq' = [sq EXCEPT !.state = Ended(r), !.timer = clearTimeout(sq.timer), !.outcome = "deadline",
                           !.result = r]
    /\ abandoned' = abandoned + 1
    /\ UNCHANGED <<env, rpc, calc, tool, held, storeVars, registryVars, mq>>

(* a call given up on settles later; nobody is waiting for it *)
LateSettle ==
    /\ abandoned > 0
    /\ abandoned' = abandoned - 1
    /\ UNCHANGED <<env, rpc, calc, tool, held, now, storeVars, registryVars, mq, sq>>

(* ===================== multi-source client: aggregator ================= *)
ListOps == {"listContainers", "listImages"}

LookupOps == {"getContainer", "getContainerLogs", "getContainerStats", "getImage"}

MultiOps == ListOps \cup LookupOps

(* the raw item arrays a backend can answer a list call with *)
Payloads == {<<>>, <<"i1", "i2">>}

Pending == [o |-> "ok", settled |-> FALSE, payload |-> <<>>]

includes(msg, token) == \E i \in 1..Len(msg) : msg[i] = token

NotExistText(op) ==
    IF op = "getImage" THEN <<"image ", "id", "does not exist">>
    ELSE <<"container ", "id", "does not exist">>

(* error.message || 'connect failed' *)
MessageOrDefault(err) == IF err.message.text # "" THEN <<err.message.text>> ELSE <<"connect failed">>

(* does the try block of the per-source callback complete for outcome o *)
SourceSucceeds(op, o) == o = "ok" \/ (o = "malformed" /\ op = "getContainerLogs")

(* the value the per-source callback of op returns for one settled call *)
SourceResult(op, src, out) ==
    IF SourceSucceeds(op, out.o)
    THEN [host |-> src.host, name |-> src.name, type |-> src.type, status |-> "success",
          error |-> <<>>, data |-> IF op \in ListOps THEN out.payload ELSE <<"detail">>]
    ELSE [host |-> src.host, name |-> src.name, type |-> src.type, status |-> "error",
          error |-> IF op \in LookupOps /\ BackendError(out.o).statusCode = 404
                    THEN NotExistText(op)
                    ELSE MessageOrDefault(BackendError(out.o)),
          data |-> <<>>]

Tagged(r) == [i \in 1..Len(r.data) |-> [item |-> r.data[i], source |-> r.name, sourceType |-> r.type]]

(* mutant of flatMap: an item some earlier source returned is left out *)
RECURSIVE flatMap_Dedup(_)
flatMap_Dedup(rs) ==
    IF rs = <<>> THEN <<>>
    ELSE LET before == flatMap_Dedup(SubSeq(rs, 1, Len(rs) - 1))
         IN before \o SelectSeq(Tagged(rs[Len(rs)]),
                                LAMBDA t : \A k \in 1..Len(before) : before[k].item # t.item)

RECURSIVE flatMap(_)
flatMap(rs) == IF rs = <<>> THEN <<>> ELSE Tagged(Head(rs)) \o flatMap(Tail(rs))

IsSuccess(r) == r.status = "success"

(* mutant of NoSourcesResult: the empty registry is reported without guide *)
NoSourcesResult_NoGuide ==
    [sources |-> <<>>, status |-> "no_docker_found",
     message |-> "no docker source configured",
     hasCombined |-> FALSE, combined |-> <<>>, setup_guide |-> FALSE]

NoSourcesResult ==
    [sources |-> <<>>, status |-> "no_docker_found",
     message |-> "no docker source configured",
     hasCombined |-> FALSE, combined |-> <<>>, setup_guide |-> TRUE]

(* mutant of ListAggregate: any success counts as full success *)
ListAggregate_NoPartial(op, results) ==
    LET successResults == SelectSeq(results, IsSuccess)
    IN IF Len(successResults) = 0
       THEN [sources |-> results, status |-> "no_docker_found",
             message |-> "all docker sources failed to connect",
             hasCombined |-> FALSE, combined |-> <<>>, setup_guide |-> TRUE]
       ELSE [sources |-> results, status |-> "success",
             message |-> "got list from sources",
             hasCombined |-> TRUE, combined |-> flatMap(successResults), setup_guide |-> FALSE]

(* the classification of listContainers and listImages *)
ListAggregate(op, results) ==
    LET successResults == SelectSeq(results, IsSuccess)
    IN IF Len(successResults) = 0
       THEN [sources |-> results, status |-> "no_docker_found",
             message |-> "all docker sources failed to connect",
             hasCombined |-> FALSE, combined |-> <<>>, setup_guide |-> TRUE]
       ELSE [sources |-> results,
             status |-> IF Len(successResults) = Len(results) THEN "success" ELSE "partial",
             message |-> IF op = "listContainers" /\ Len(successResults) # Len(results)
                         THEN "some sources connected" ELSE "got list from sources",
             hasCombined |-> TRUE, combined |-> flatMap(successResults), setup_guide |-> FALSE]

(* mutant of find: the last successful outcome is taken *)
find_Last(results) ==
    IF \E i \in 1..Len(results) : IsSuccess(results[i])
    THEN CHOOSE i \in 1..Len(results) :
            IsSuccess(results[i]) /\ \A k \in (i + 1)..Len(results) : ~IsSuccess(results[k])
    ELSE 0

find(results) ==
    IF \E i \in 1..Len(results) : IsSuccess(results[i])
    THEN CHOOSE i \in 1..Len(results) :
            IsSuccess(results[i]) /\ \A k \in 1..(i - 1) : ~IsSuccess(results[k])
    ELSE 0

(* mutant of LookupAggregate: a lookup that some source failed is partial *)
LookupAggregate_Partial(op, results) ==
    LET first == find(results)
    IN IF first = 0
       THEN [sources |-> results, status |-> "no_docker_found",
             message |-> "does not exist in any source",
             hasCombined |-> FALSE, combined |-> <<>>, setup_guide |-> FALSE]
       ELSE [sources |-> results,
             status |-> IF \A i \in 1..Len(results) : IsSuccess(results[i])
                        THEN "success" ELSE "partial",
             message |-> "found in source",
             hasCombined |-> TRUE, combined |-> Tagged(results[first]), setup_guide |-> FALSE]

(* the classification of getContainer, getContainerLogs, getContainerStats *)
(* and getImage                                                            *)
LookupAggregate(op, results) ==
    LET first == find(results)
        allNotFound == \A i \in 1..Len(results) : includes(results[i].error, "does not exist")
    IN IF first = 0
       THEN [sources |-> results, status |-> "no_docker_found",
             message |-> CASE op = "getContainer" ->
                              (IF allNotFound THEN "does not exist in any source"
                               ELSE "all docker sources failed to connect")
                           [] op = "getContainerLogs" -> "cannot get container logs"
                           [] op = "getContainerStats" -> "cannot get container stats"
                           [] OTHER -> "does not exist in any source",
             hasCombined |-> FALSE,
             combined |-> <<>>,
             setup_guide |-> CASE op = "getContainer" -> ~allNotFound
                               [] op = "getImage" -> FALSE
                               [] OTHER -> TRUE]
       ELSE [sources |-> results, status |-> "success", message |-> "found in source",
             hasCombined |-> TRUE,
             combined |-> Tagged(results[first]), setup_guide |-> FALSE]

(* Promise.all over the per-source callbacks: a callback that rejects      *)
(* rejects the whole, and the operation, which awaits it outside any try,  *)
(* throws; otherwise the outcomes are classified.                          *)
Aggregate(op, targets, outs) ==
    LET results == [i \in 1..Len(targets) |-> SourceResult(op, targets[i], outs[i])]
    IN IF \E i \in 1..Len(results) : results[i].status = "uncaught"
       THEN [sources |-> results, status |-> "uncaught", message |-> "", hasCombined |-> FALSE,
             combined |-> <<>>, setup_guide |-> FALSE]
       ELSE IF op \in ListOps THEN ListAggregate(op, results) ELSE LookupAggregate(op, results)

(* the response a multi-source tool builds from the aggregate: only the    *)
(* no_docker_found branch copies the guide, the other carries the data     *)
formatMultiSourceResponse(result) ==
    IF result.status = "no_docker_found"
    THEN [status |-> "error", message |-> result.message, data |-> <<>>,
          setup_guide |-> result.setup_guide, hasData |-> FALSE]
    ELSE [status |-> result.status, message |-> result.message, data |-> result.combined,
          setup_guide |-> FALSE, hasData |-> TRUE]

(* the response of the connection-status tool for a registry of n sources  *)
(* of which k answered the ping                                            *)
multiDockerConnectionStatus(n, k) ==
    IF n = 0
    THEN [status |-> "error", message |-> "no docker source configured", data |-> <<>>,
          setup_guide |-> TRUE, hasData |-> FALSE]
    ELSE [status |-> IF k > 0 THEN "success" ELSE "error",
          message |-> IF k > 0 THEN "sources connected" ELSE "all sources failed to connect",
          data |-> <<>>, setup_guide |-> FALSE, hasData |-> FALSE]

MqEnded(r) == IF r.status = "uncaught" THEN "threw" ELSE "returned"

(* the configuration the client holds: what a registry is built for *)
ClientConfig == [allowLocal |-> allowLocal, remoteHost |-> remoteHost]

(* the caller's position: the operation and when it was called, the probe  *)
(* it awaits and the configuration under which it began to wait, the       *)
(* sources it fanned out to and their outcomes, the order in which the     *)
(* sources answered, and the aggregate it returned.                        *)
MqIdle == [op |-> "none", state |-> "idle", start |-> 0, result |-> NoSourcesResult, targets |-> <<>>,
           awaiting |-> 0, outcomes |-> <<>>,
           called |-> [allowLocal |-> FALSE, remoteHost |-> EmptyStr], answered |-> <<>>]

(* source.client.ping() of testConnection settled with outcome o: a      *)
(* success writes the status only, a failure the status and the error      *)
testConnection(src, o) ==
    IF o = "ok"
    THEN [src EXCEPT !.status = "connected"]
    ELSE [src EXCEPT !.status = "error",
                     !.error = IF BackendError(o).message.text # ""
                               THEN BackendError(o).message.text
                               ELSE "connect failed"]

(* what getConnectionStatus returns for the values of its callbacks *)
ConnectionStatus(total, results) ==
    [sources |-> results,
     totalSources |-> total,
     connectedSources |-> Cardinality({k \in 1..Len(results) : results[k].status = "connected"})]

(* what follows ensureInitialized in every operation, on the registry srcs *)
StartFanout(op, srcs, start) ==
    IF Len(srcs) = 0
    THEN [MqIdle EXCEPT !.op = op, !.state = "returned", !.start = start,
                        !.result = IF op = "getConnectionStatus"
                                   THEN ConnectionStatus(0, <<>>)
                                   ELSE NoSourcesResult]
    ELSE [MqIdle EXCEPT !.op = op, !.state = "fanout", !.start = start, !.targets = srcs,
                        !.outcomes = [i \in 1..Len(srcs) |-> Pending]]

(* an operation is called: ensureInitialized waits for a pending probe,   *)
(* otherwise the fan-out is issued at once.                                *)
MultiBegin(op) ==
    /\ mq.state \in {"idle", "returned", "threw"}
    /\ IF initPromise \in probes
       THEN /\ mq' = [MqIdle EXCEPT !.op = op, !.state = "awaitInit", !.awaiting = initPromise,
                                    !.start = now, !.called = ClientConfig]
            /\ UNCHANGED registryVars
       ELSE /\ mq' = StartFanout(op, sources, now)
            /\ initPromise' = 0
            /\ initialized' = TRUE
            /\ UNCHANGED <<sources, allowLocal, remoteHost, lastConfigHash, probes, localProbe>>
    /\ UNCHANGED <<env, calc, tool, held, now, storeVars, sq, abandoned>>

(* a caller of the client calls one of its six query operations *)
MultiCall(op) == MultiBegin(op) /\ UNCHANGED rpc

(* the ping of initializeLocalSource settles: the source is pushed on the *)
(* current registry when it succeeded, and the operation awaiting this     *)
(* probe resumes in the same turn.                                         *)
ProbeSettle(p, ok) ==
    /\ p \in probes
    /\ probes' = probes \ {p}
    /\ sources' = initializeLocalSource(sources, ok)
    /\ localProbe' = IF p = localProbe.id /\ localProbe.ping = "pending"
                     THEN [localProbe EXCEPT !.ping = IF ok THEN "ok" ELSE "failed"]
                     ELSE localProbe
    /\ IF mq.state = "awaitInit" /\ mq.awaiting = p
       THEN /\ mq' = StartFanout(mq.op, sources', mq.start)
            /\ initPromise' = 0
            /\ initialized' = TRUE
       ELSE UNCHANGED <<mq, initPromise, initialized>>
    /\ UNCHANGED <<env, rpc, calc, tool, held, now, storeVars, allowLocal, remoteHost, lastConfigHash, sq, abandoned>>

(* mutant of PromiseAll: the first callback to settle resolves the whole *)
PromiseAll_First(outs) == \E k \in 1..Len(outs) : outs[k].settled

(* Promise.all over callbacks that settle with a value: resolved once every *)
(* one of them has settled                                                  *)
PromiseAll(outs) == \A k \in 1..Len(outs) : outs[k].settled

(* the call to source i settles; Promise.all resolves with the last one *)
SourceSettle(i, o, payload) ==
    /\ mq.state = "fanout"
    /\ mq.op \in MultiOps
    /\ i \in 1..Len(mq.outcomes)
    /\ ~mq.outcomes[i].settled
    /\ (o # "ok" \/ mq.op \notin ListOps) => payload = <<>>
    /\ LET outs == [mq.outcomes EXCEPT ![i] = [o |-> o, settled |-> TRUE, payload |-> payload]]
       IN mq' = IF PromiseAll(outs)
                THEN [mq EXCEPT !.outcomes = outs, !.answered = Append(mq.answered, i),
                                !.state = MqEnded(Aggregate(mq.op, mq.targets, outs)),
                                !.result = Aggregate(mq.op, mq.targets, outs)]
                ELSE [mq EXCEPT !.outcomes = outs, !.answered = Append(mq.answered, i)]
    /\ UNCHANGED <<env, rpc, calc, tool, held, now, storeVars, registryVars, sq, abandoned>>

(* getConnectionStatus is called: ensureInitialized, then one ping per    *)
(* source of the registry                                                  *)
getConnectionStatus == MultiBegin("getConnectionStatus") /\ UNCHANGED rpc

(* The ping of source i settles: testConnection writes to the source, the  *)
(* callback returns the source's fields as they are then, and Promise.all  *)
(* resolves with the last callback.  The registry is not rebuilt while      *)
(* pings are out in the specifications that ping, so that the source        *)
(* pinged is the one the registry holds at i.                              *)
PingSettle(i, o) ==
    /\ mq.state = "fanout"
    /\ mq.op = "getConnectionStatus"
    /\ i \in 1..Len(mq.outcomes)
    /\ ~mq.outcomes[i].settled
    /\ LET tested == testConnection(sources[i], o)
           outs == [mq.outcomes EXCEPT ![i] = [o |-> o, settled |-> TRUE, payload |-> <<tested>>]]
       IN /\ sources' = [sources EXCEPT ![i] = tested]
          /\ mq' = IF PromiseAll(outs)
                   THEN [mq EXCEPT !.outcomes = outs, !.answered = Append(mq.answered, i),
                                   !.state = "returned",
                                   !.result = ConnectionStatus(Len(sources),
                                                  [k \in 1..Len(outs) |-> outs[k].payload[1]])]
                   ELSE [mq EXCEPT !.outcomes = outs, !.answered = Append(mq.answered, i)]
    /\ UNCHANGED <<env, rpc, calc, tool, held, now, storeVars, allowLocal, remoteHost, initialized,
                   initPromise, lastConfigHash, probes, localProbe, sq, abandoned>>

(* ===================== the tools/call handler ========================== *)
(* An argument value is a string, given by its characters, or a value of   *)
(* another type, which the guard does not look at.                         *)
Str(cs) == [isString |-> TRUE, chars |-> cs]

NotStr == [isString |-> FALSE, chars |-> <<>>]

allowedTools ==
    {"docker_list_containers", "docker_inspect", "docker_logs", "docker_stats",
     "docker_list_images", "docker_image_info"}

MULTI_CONTAINER_TOOLS == allowedTools \cup {"docker_connection_status"}

MULTI_TOOLS == MULTI_CONTAINER_TOOLS \cup {"docker_generate_config"}

MULTI_TOOL_HANDLERS == MULTI_TOOLS

SESSION_CONFIG_TOOLS == {"docker_set_connection", "docker_get_session_config", "docker_reset_config"}

(* the grave accent, which a string of this language cannot hold *)
Backtick == "grave"

(* . matches any character but a line terminator *)
Dot(c) == c # "\n"

(* /c.*$/ : a c with no line terminator between it and the end *)
ToEnd(v, c) == \E i \in 1..Len(v) : v[i] = c /\ \A k \in (i + 1)..Len(v) : Dot(v[k])

(* /a.*b/ for the sequences a and b *)
Between(v, a, b) ==
    \E i, j \in 1..Len(v) :
        /\ i + Len(a) <= j
        /\ j + Len(b) - 1 <= Len(v)
        /\ SubSeq(v, i, i + Len(a) - 1) = a
        /\ SubSeq(v, j, j + Len(b) - 1) = b
        /\ \A k \in (i + Len(a))..(j - 1) : Dot(v[k])

Twice(v, c) == \E i \in 1..(Len(v) - 1) : v[i] = c /\ v[i + 1] = c

blockedPatterns(v) ==
    \/ ToEnd(v, ";")
    \/ ToEnd(v, "|")
    \/ Between(v, <<Backtick>>, <<Backtick>>)
    \/ Between(v, <<"$", "(">>, <<")">>)
    \/ Twice(v, "&")
    \/ Twice(v, "|")

checkArguments(args) ==
    IF \E k \in 1..Len(args) : args[k].isString /\ blockedPatterns(args[k].chars)
    THEN [safe |-> FALSE, reason |-> "dangerous pattern"]
    ELSE IF \E k \in 1..Len(args) : args[k].isString /\ Twice(args[k].chars, ".")
    THEN [safe |-> FALSE, reason |-> "path traversal"]
    ELSE [safe |-> TRUE, reason |-> ""]

checkToolCall(toolName, args) ==
    IF toolName \notin allowedTools
    THEN [reason |-> "not in whitelist", allowed |-> FALSE]
    ELSE [reason |-> checkArguments(args).reason, allowed |-> checkArguments(args).safe]

RpcIdle == [args |-> <<>>, reason |-> "", toolName |-> "none", taken |-> "none"]

(* the client operation behind each tool of MULTI_TOOL_MAP *)
ClientOp(toolName) ==
    CASE toolName = "docker_list_containers" -> "listContainers"
      [] toolName = "docker_inspect" -> "getContainer"
      [] toolName = "docker_logs" -> "getContainerLogs"
      [] toolName = "docker_stats" -> "getContainerStats"
      [] toolName = "docker_list_images" -> "listImages"
      [] toolName = "docker_image_info" -> "getImage"
      [] OTHER -> "getConnectionStatus"

(* The handler of tools/call: the guard first, then the look-up of the     *)
(* handler, then the handler, which calls the client unless it is the      *)
(* configuration generator.  A request the guard rejects or that names no  *)
(* handler ends in an McpError.                                            *)
CallTool(toolName, args) ==
    LET chk == checkToolCall(toolName, args)
    IN IF ~chk.allowed
       THEN /\ rpc' = [args |-> args, reason |-> chk.reason, toolName |-> toolName, taken |-> "blocked"]
            /\ UNCHANGED <<env, calc, tool, held, now, storeVars, registryVars, mq, sq, abandoned>>
       ELSE IF toolName \notin MULTI_TOOL_HANDLERS
       THEN /\ rpc' = [args |-> args, reason |-> "", toolName |-> toolName, taken |-> "unknown"]
            /\ UNCHANGED <<env, calc, tool, held, now, storeVars, registryVars, mq, sq, abandoned>>
       ELSE /\ rpc' = [args |-> args, reason |-> "", toolName |-> toolName, taken |-> "handler"]
            /\ IF toolName = "docker_generate_config"
               THEN UNCHANGED <<env, calc, tool, held, now, storeVars, registryVars, mq, sq, abandoned>>
               ELSE MultiBegin(ClientOp(toolName))

(* ===================== time ============================================ *)
(* The clock advances by at most TickMs, and only up to the deadline of a  *)
(* timer that has not fired: SingleTimeout is the step that reaches it.    *)
TimerPending == sq.timer # NoTimer

Deadline == sq.timer

Tick ==
    /\ now < MaxTime
    /\ TimerPending => Min(now + TickMs, MaxTime) < Deadline
    /\ now' = Min(now + TickMs, MaxTime)
    /\ UNCHANGED <<env, rpc, calc, tool, held, storeVars, registryVars, mq, sq, abandoned>>

(* ===================== specifications ================================== *)
Init ==
    /\ env \in Envs
    /\ now = 0
    /\ config = constructorConfig(env, 0)
    /\ listeners = <<"client">>
    /\ notifyLog = <<>>
    /\ storeCall = [arg |-> EnvFields(env), op |-> "constructor", ended |-> "returned"]
    /\ allowLocal = config.allowLocal
    /\ remoteHost = (IF Truthy(config.dockerHost) THEN config.dockerHost ELSE EmptyStr)
    /\ lastConfigHash = getConfigHash(config)
    /\ sources = initializeRemoteSources(remoteHost)
    /\ initialized = FALSE
    /\ initPromise = (IF allowLocal THEN 1 ELSE 0)
    /\ probes = (IF allowLocal THEN {1} ELSE {})
    /\ localProbe = (IF allowLocal THEN Started(1) ELSE NoProbe)
    /\ mq = MqIdle
    /\ sq = SqIdle
    /\ abandoned = 0
    /\ held = <<>>
    /\ tool = ToolIdle
    /\ rpc = RpcIdle
    /\ calc = CalcIdle

ListenerKinds == {"recorder", "thrower"}

(* the session store and its listeners *)
InitStore == Init /\ env \in {EnvNone, EnvBoth}

NextStore ==
    \/ \E h \in {null, AddrA} : setDockerHost(h)
    \/ \E a \in BOOLEAN : setAllowLocal(a)
    \/ \E u \in UpdateInputs : setMultiple(u)
    \/ resetToEnv
    \/ \E k \in ListenerKinds : addListener(k)
    \/ \E k \in ListenerKinds : removeListener(k)
    \/ \E p \in probes : ProbeSettle(p, FALSE)
    \/ Tick

SpecStore == InitStore /\ [][NextStore]_vars

(* the session store and the callers that read it *)
NextSnap ==
    \/ setDockerHost(AddrA)
    \/ setMultiple([securityMode |-> "readwrite", auditLog |-> FALSE, logLevel |-> "error"])
    \/ resetToEnv
    \/ getConfigCall
    \/ \E i \in 1..MaxHeld, w \in HeldWrites : WriteHeld(i, w)
    \/ Tick

SpecSnap == InitStore /\ [][NextSnap]_vars

(* the session store and a listener that keeps what it is called with;  *)
(* every held object of this specification was handed to the listener     *)
NextListen ==
    \/ addListener("keeper")
    \/ setDockerHost(AddrA)
    \/ resetToEnv
    \/ \E i \in 1..MaxHeld : WriteHeld(i, [dockerHost |-> AddrB])
    \/ Tick

SpecListen == InitStore /\ [][NextListen]_vars

(* the client asked for the state of its connections, again and again *)
NextStatus ==
    \/ getConnectionStatus
    \/ \E p \in probes, ok \in BOOLEAN : ProbeSettle(p, ok)
    \/ \E i \in 1..MaxProbes + 1, o \in {"ok", "refused", "etimedout"} : PingSettle(i, o)
    \/ Tick

SpecStatus == Init /\ [][NextStatus]_vars

(* the server's tools/call handler in front of the client *)
ToolNames == MULTI_TOOLS \cup SESSION_CONFIG_TOOLS \cup {"docker_exec"}

ArgInputs ==
    {<<>>, <<Str(<<"w", "e", "b">>)>>, <<NotStr>>,
     <<Str(<<"a", ";", "b">>)>>, <<Str(<<"a", ";", "\n">>)>>, <<Str(<<"a", "|", "b">>)>>,
     <<Str(<<Backtick, "x", Backtick>>)>>, <<Str(<<"$", "(", "x", ")">>)>>, <<Str(<<"a", "&", "&", "b">>)>>,
     <<Str(<<".", ".", "/">>)>>, <<Str(<<"w", "e", "b">>), NotStr>>}

NextRpc ==
    \/ \E t \in ToolNames, a \in ArgInputs : CallTool(t, a)
    \/ \E p \in probes, ok \in BOOLEAN : ProbeSettle(p, ok)
    \/ \E i \in 1..MaxProbes + 1, o \in {"ok", "refused"}, pl \in Payloads : SourceSettle(i, o, pl)

InitRpc == Init /\ env = EnvBoth

SpecRpc == InitRpc /\ [][NextRpc]_vars

(* the docker_set_connection tool in front of the store and the registry *)
Ip == <<"1", ".", "2", ".", "3", ".", "4">>
IpPort == Ip \o <<":">> \o DefaultPort

ToolHosts ==
    { EmptyStr, NullWord, AddrA, TCP \o IpPort, TCP \o <<"a", ":", "0">>,
      TCP \o <<"a", ":", "7", "0", "0", "0", "0">>, Ip, IpPort, NoScheme, NoPort, TCP \o Ip,
      <<"a">> }

OtherFields ==
    [allow_local |-> JsBoolean(TRUE), security_mode |-> JsString("readwrite"),
     audit_log |-> JsBoolean(FALSE), log_level |-> JsString("error")]

ToolArgs ==
    { [docker_host |-> JsString(h)] : h \in ToolHosts }
    \cup { [k \in DOMAIN OtherFields \cup {"docker_host"} |->
                IF k = "docker_host" THEN JsString(h) ELSE OtherFields[k]] :
                h \in {AddrA, Ip, IpPort, NoScheme, NoPort} }
    \cup { [allow_local |-> JsBoolean(FALSE)],
           [docker_host |-> JsString(AddrA), allow_local |-> JsString("yes")],
           [security_mode |-> JsString("admin"), log_level |-> JsString("warn")] }

NextTool ==
    \/ \E a \in ToolArgs : handleSetConnection(a)
    \/ \E p \in probes : ProbeSettle(p, FALSE)

InitTool == Init /\ env = EnvNone

SpecTool == InitTool /\ [][NextTool]_vars

(* the formatters on their own *)
NextFormat ==
    \/ \E st \in StatsInputs : formatStatsCall(st)
    \/ \E st \in StatsInputs : singleStatsCall(st)
    \/ \E b \in ByteInputs : formatBytesCall(b)

SpecFormat == InitTool /\ [][NextFormat]_vars

(* the single-target client under a changing session default *)
NextSingle ==
    \/ \E h \in HostInputs : setDockerHost(h)
    \/ resetToEnv
    \/ \E op \in SingleOps, h \in ParamInputs : SingleCall(op, h)
    \/ \E o \in Outcomes : SingleSettle(o)
    \/ \E p \in probes : ProbeSettle(p, FALSE)

SpecSingle == Init /\ [][NextSingle]_vars

(* the multi-source client under a changing registry *)
NextMulti ==
    \/ \E h \in {null, AddrA} : setDockerHost(h)
    \/ \E a \in BOOLEAN : setAllowLocal(a)
    \/ \E op \in MultiOps : MultiCall(op)
    \/ \E p \in probes, ok \in BOOLEAN : ProbeSettle(p, ok)
    \/ \E i \in 1..MaxProbes + 1, o \in {"ok", "refused", "notfound"}, pl \in Payloads :
            SourceSettle(i, o, pl)

InitMulti == Init /\ env = EnvNone

SpecMulti == InitMulti /\ [][NextMulti]_vars

(* either variant of the client, as configured by the environment, over   *)
(* time: a process runs one of the two.                                    *)
NextEngine ==
    \/ /\ mq = MqIdle
       /\ \/ \E op \in SingleOps, h \in {null, AddrA, NoPort} : SingleCall(op, h)
          \/ \E o \in Outcomes : SingleSettle(o)
          \/ SingleTimeout
          \/ LateSettle
    \/ /\ sq = SqIdle
       /\ \/ \E op \in MultiOps : MultiCall(op)
          \/ \E p \in probes, ok \in BOOLEAN : ProbeSettle(p, ok)
          \/ \E i \in 1..MaxProbes + 1, o \in Outcomes, pl \in Payloads : SourceSettle(i, o, pl)
    \/ Tick

SpecEngine == Init /\ [][NextEngine]_vars

(* ===================== properties ====================================== *)
SqCalled == sq.state # "idle"

(* C1: a call whose docker_host argument is an address of the tcp://       *)
(* scheme (every well-formed tcp://host:port is one) runs against that     *)
(* argument, whatever session default the setters have established.        *)
C1_ParamPrecedence ==
    (SqCalled /\ Truthy(sq.param) /\ startsWith(sq.param, TCP)) => sq.host = sq.param

(* a call with argument A made while the session default, set by           *)
(* setDockerHost, was B *)
C1_Witness ==
    /\ sq.state = "returned"
    /\ sq.param = AddrA
    /\ sq.session = AddrB
    /\ sq.host = AddrA
    /\ sq.result.success
    /\ storeCall.op = "setDockerHost"

SyntacticallyValid(a) == Truthy(a) /\ createDockerClient(a).ok

(* C2 as claimed: without a syntactically valid argument the target is the *)
(* session default, NONE when the default is unset, and the NONE case ends *)
(* in the not-configured failure without any backend request.              *)
C2_SessionOrNone ==
    (SqCalled /\ ~SyntacticallyValid(sq.param)) =>
        /\ sq.host = (IF Truthy(sq.session) THEN sq.session ELSE null)
        /\ ~Truthy(sq.session) =>
              (sq.state = "returned" /\ sq.result = NotConfigured /\ ~sq.contacted)

(* C2 as amended: without an argument of the tcp:// scheme the target is   *)
(* the session default, else the DOCKER_HOST of the environment, and NONE  *)
(* only when both are unset; the NONE case returns the not-configured      *)
(* failure, does not throw and issues no backend request.                  *)
C2_SessionEnvOrNone ==
    (SqCalled /\ ~(Truthy(sq.param) /\ startsWith(sq.param, TCP))) =>
        /\ sq.host = (IF Truthy(sq.session) THEN sq.session
                      ELSE IF Truthy(env.DOCKER_HOST) THEN env.DOCKER_HOST ELSE null)
        /\ sq.host = null =>
              (sq.state = "returned" /\ sq.result = NotConfigured /\ ~sq.contacted)

(* the default was cleared with setDockerHost(null), the environment names *)
(* no host, and a call without a usable argument came back not configured  *)
C2_Witness ==
    /\ storeCall.op = "setDockerHost"
    /\ storeCall.arg.dockerHost = null
    /\ sq.state = "returned"
    /\ sq.param = NoScheme
    /\ sq.session = null
    /\ sq.host = null
    /\ sq.result = NotConfigured

MqReturned == mq.state = "returned"

(* the sources of the returned call whose backend call succeeded *)
OkSources == {i \in 1..Len(mq.targets) : SourceSucceeds(mq.op, mq.outcomes[i].o)}

SomeNotAll == OkSources # {} /\ Cardinality(OkSources) < Len(mq.targets)

(* C3: a list query over no source answers no_docker_found with the setup *)
(* guide and no combined data; over sources that all succeed, success;     *)
(* over sources some of which succeed, partial; over sources that all      *)
(* fail, no_docker_found.                                                  *)
C3_ListClassification ==
    (MqReturned /\ mq.op \in ListOps) =>
        /\ Len(mq.targets) = 0 =>
              (mq.result.status = "no_docker_found" /\ mq.result.setup_guide
               /\ ~mq.result.hasCombined)
        /\ (Len(mq.targets) > 0 /\ Cardinality(OkSources) = Len(mq.targets)) =>
              mq.result.status = "success"
        /\ SomeNotAll => mq.result.status = "partial"
        /\ (Len(mq.targets) > 0 /\ OkSources = {}) => mq.result.status = "no_docker_found"

(* a list query over two sources, one of which failed *)
C3_Witness ==
    /\ MqReturned
    /\ mq.op \in ListOps
    /\ Len(mq.targets) = 2
    /\ Cardinality(OkSources) = 1
    /\ mq.result.status = "partial"

(* the combined payload holds every item source i returned, tagged *)
ContainsDataOf(i) ==
    LET items == Tagged(mq.result.sources[i])
    IN \A k \in 1..Len(items) :
          \E j \in 1..Len(mq.result.combined) : mq.result.combined[j] = items[k]

(* C4 as claimed: for list queries and by-id lookups alike, some but not   *)
(* all sources succeeding gives partial with the successful data combined. *)
C4_PartialEverywhere ==
    (MqReturned /\ SomeNotAll) =>
        /\ mq.result.status = "partial"
        /\ mq.result.hasCombined
        /\ \A i \in OkSources : ContainsDataOf(i)

FirstOk == CHOOSE i \in OkSources : \A k \in OkSources : i <= k

(* C4 as amended: a list query with some but not all sources succeeding is *)
(* partial and combines the data of the successful sources; a by-id lookup *)
(* with some but not all sources succeeding is success, and its combined   *)
(* payload is the data of the first successful source in registry order.   *)
C4_PartialListsOnly ==
    (MqReturned /\ SomeNotAll) =>
        /\ mq.result.hasCombined
        /\ mq.op \in ListOps =>
              (mq.result.status = "partial" /\ \A i \in OkSources : ContainsDataOf(i))
        /\ mq.op \in LookupOps =>
              (mq.result.status = "success"
               /\ mq.result.combined = Tagged(mq.result.sources[FirstOk]))

(* a by-id lookup found in the second source only *)
C4_Witness ==
    /\ MqReturned
    /\ mq.op \in LookupOps
    /\ Len(mq.targets) = 2
    /\ OkSources = {2}
    /\ mq.result.status = "success"

Connectivity == {"refused", "etimedout"}

(* C5: a by-id lookup no source answered says "does not exist in any       *)
(* source" when every source answered 404, and reports the connectivity    *)
(* failure when every source failed to connect.                            *)
C5_FailureClasses ==
    (MqReturned /\ mq.op \in LookupOps /\ Len(mq.targets) > 0 /\ OkSources = {}) =>
        /\ (\A i \in 1..Len(mq.targets) : mq.outcomes[i].o = "notfound") =>
              mq.result.message = "does not exist in any source"
        /\ (\A i \in 1..Len(mq.targets) : mq.outcomes[i].o \in Connectivity) =>
              mq.result.message = "all docker sources failed to connect"

SqTimedOut == sq.outcome = "deadline"

(* C6: no call of either client is still waiting once the per-call         *)
(* deadline has elapsed since it was made.                                 *)
C6_EveryCallBounded ==
    /\ sq.state = "pending" => now < sq.start + DEFAULT_TIMEOUT
    /\ mq.state \in {"awaitInit", "fanout"} => now < mq.start + DEFAULT_TIMEOUT

(* C7: in the single-target client no call is waiting at or after its      *)
(* deadline, and a call ended by the deadline timer has returned, at the   *)
(* deadline, the failure whose message names the operation and the bound.  *)
C7_TimeoutIsFailure ==
    /\ sq.state = "pending" => now < sq.start + DEFAULT_TIMEOUT
    /\ SqTimedOut =>
          /\ sq.state = "returned"
          /\ now >= sq.start + DEFAULT_TIMEOUT
          /\ ~sq.result.success
          /\ sq.result.error = [text |-> "timeout", operation |-> OperationLabel(sq.op),
                                seconds |-> DEFAULT_TIMEOUT \div 1000]

(* a call has returned its timeout failure while the backend call it gave *)
(* up on is still running                                                  *)
C7_Witness ==
    /\ SqTimedOut
    /\ sq.state = "returned"
    /\ sq.op = "inspectContainer"
    /\ abandoned = 1

(* C8: no operation of either client ends in an exception; a returned      *)
(* single-target call whose backend call failed has success = false and an *)
(* error text, and a returned aggregate lists one outcome per source, an   *)
(* error outcome with its text for every source whose call failed.         *)
C8_FailuresAreData ==
    /\ sq.state # "threw"
    /\ mq.state # "threw"
    /\ (sq.state = "returned" /\ sq.outcome \in {"refused", "notfound", "etimedout", "deadline"}) =>
          (~sq.result.success /\ sq.result.error.text # "")
    /\ (sq.state = "returned" /\ sq.outcome = "malformed" /\ sq.op # "getConnectionStatus") =>
          (~sq.result.success /\ sq.result.error.text # "")
    /\ MqReturned =>
          /\ Len(mq.result.sources) = Len(mq.targets)
          /\ \A i \in 1..Len(mq.targets) :
                i \notin OkSources =>
                    (mq.result.sources[i].status = "error" /\ mq.result.sources[i].error # <<>>)

(* an aggregate returned with a malformed payload from one source and a   *)
(* refused connection from the other recorded as error outcomes            *)
C8_Witness ==
    /\ MqReturned
    /\ mq.op = "listContainers"
    /\ Len(mq.targets) = 2
    /\ mq.outcomes[1].o = "malformed"
    /\ mq.outcomes[2].o = "refused"
    /\ mq.result.status = "no_docker_found"

SetterStep ==
    \/ \E h \in HostInputs : setDockerHost(h)
    \/ \E a \in BOOLEAN : setAllowLocal(a)
    \/ \E u \in UpdateInputs : setMultiple(u)

Fields(c) == [k \in DOMAIN c \ {"configuredAt", "configuredBy"} |-> c[k]]

EveryListenerSaw(log, ls, c) ==
    /\ Len(log) = Len(ls)
    /\ \A i \in 1..Len(ls) : log[i].kind = ls[i] /\ log[i].seen = c

(* C9: a call of setDockerHost, setAllowLocal or setMultiple leaves the    *)
(* fields of its argument in the configuration, stamped with the time of   *)
(* the call and 'session'; each subscription is invoked once, in order,    *)
(* with that stamped configuration, before the call returns; and no step   *)
(* changes a field without setting the stamp to the current time.          *)
C9_StampThenNotify ==
    [][ /\ SetterStep =>
            /\ \A k \in DOMAIN storeCall'.arg : config'[k] = storeCall'.arg[k]
            /\ config'.configuredAt = now
            /\ config'.configuredBy = "session"
            /\ EveryListenerSaw(notifyLog', listeners, config')
            /\ storeCall'.ended = "returned"
        /\ Fields(config') # Fields(config) =>
            /\ config'.configuredAt = now'
            /\ config'.configuredBy \in {"session", "env"}
      ]_vars

(* setMultiple at a later time, with three subscriptions notified *)
C9_Witness ==
    /\ storeCall.op = "setMultiple"
    /\ now = MaxTime
    /\ config.configuredAt = MaxTime
    /\ config.configuredBy = "session"
    /\ config.securityMode = "readwrite"
    /\ Len(notifyLog) = 3
    /\ \A i \in 1..3 : notifyLog[i].seen = config

MutatorStep == SetterStep \/ resetToEnv

(* C10: when a subscribed listener throws during a notification, every     *)
(* subscription is still invoked for that change, the new configuration    *)
(* stays in the store and the mutator returns.                             *)
C10_ListenerIsolation ==
    [][ (MutatorStep /\ \E i \in 1..Len(listeners) : listeners[i] = "thrower") =>
            /\ Len(notifyLog') = Len(listeners)
            /\ \A i \in 1..Len(listeners) : notifyLog'[i].kind = listeners[i]
            /\ \E i \in 1..Len(listeners) : notifyLog'[i].threw
            /\ \A k \in DOMAIN storeCall'.arg : config'[k] = storeCall'.arg[k]
            /\ \A i \in 1..Len(listeners) : notifyLog'[i].seen = config'
            /\ storeCall'.ended = "returned"
      ]_vars

(* a notification in which the second subscription threw and the third    *)
(* was invoked all the same, the change being in the store                 *)
C10_Witness ==
    /\ storeCall.op = "setDockerHost"
    /\ storeCall.arg.dockerHost = AddrA
    /\ config.dockerHost = AddrA
    /\ listeners = <<"client", "thrower", "recorder">>
    /\ Len(notifyLog) = 3
    /\ notifyLog[2].threw
    /\ notifyLog[3].kind = "recorder"
    /\ notifyLog[3].seen = config
    /\ storeCall.ended = "returned"

WriteHeldStep == \E i \in 1..Len(held), w \in HeldWrites : WriteHeld(i, w)

OthersKept(i) == \A j \in 1..Len(held) : j # i => held'[j] = held[j]

SameButTime(a, b) == [a EXCEPT !.configuredAt = NullDate] = [b EXCEPT !.configuredAt = NullDate]

FreshPairsEqual ==
    \A i, j \in 1..Len(held) : (held[i].fresh /\ held[j].fresh) => held[i].got = held[j].got

(* C12 as claimed: resetToEnv leaves the five fields at their environment  *)
(* values with configuredBy = 'env', a resetToEnv that follows a resetToEnv *)
(* leaves the same snapshot, and two getConfig results with no mutation    *)
(* in between are equal.                                                   *)
C12_ResetSameSnapshot ==
    /\ []FreshPairsEqual
    /\ [][ resetToEnv =>
              /\ Fields(config') = EnvFields(env)
              /\ config'.configuredBy = "env"
              /\ storeCall.op = "resetToEnv" => config' = config
         ]_vars

(* C12 as amended: the same, except that the second of two resetToEnv      *)
(* calls leaves the same snapshot but for configuredAt, which is the time  *)
(* of each call.                                                           *)
C12_ResetSameButTime ==
    /\ []FreshPairsEqual
    /\ [][ resetToEnv =>
              /\ Fields(config') = EnvFields(env)
              /\ config'.configuredBy = "env"
              /\ config'.configuredAt = now
              /\ storeCall.op = "resetToEnv" => SameButTime(config', config)
         ]_vars

(* resetToEnv after a setter changed the fields, in a process whose        *)
(* environment sets all five, with two equal getConfig results after it    *)
C12_Witness ==
    /\ env = EnvBoth
    /\ storeCall.op = "resetToEnv"
    /\ now = MaxTime
    /\ config = EnvConfig(env, MaxTime, "env")
    /\ Len(held) = 2
    /\ held[1].fresh /\ held[2].fresh
    /\ held[1].got = config /\ held[2].got = config

(* ----- docker_set_connection ----- *)
HostGiven == "docker_host" \in DOMAIN tool.args

GivenHost == tool.args.docker_host.v

(* host: labels of letters, digits and hyphens separated by dots, which    *)
(* covers dotted IPv4; port: decimal, 1..65535                             *)
HostPortOk(hp) ==
    LET j == FirstColon(hp, 1)
        labels == split(SubSeq(hp, 1, j - 1), ".")
        port == SubSeq(hp, j + 1, Len(hp))
    IN /\ j > 1
       /\ \A i \in 1..Len(labels) :
             labels[i] # <<>> /\ AllIn(labels[i], Letters \cup Digits \cup {"-"})
       /\ port # <<>>
       /\ AllIn(port, Digits)
       /\ Len(port) <= 5
       /\ parseInt(port) \in 1..65535

WellFormed(h) == startsWith(h, TCP) /\ HostPortOk(SubSeq(h, 7, Len(h)))

(* C13: a non-empty docker_host (the word null, which clears the address, *)
(* set aside) is accepted, stored through setDockerHost and reported as    *)
(* success, exactly when it is tcp://host:port with a hostname or dotted   *)
(* IPv4 and a port in 1..65535.                                            *)
C13_AcceptedIffWellFormed ==
    (HostGiven /\ SchemaOk(tool.args) /\ GivenHost # EmptyStr /\ GivenHost # NullWord) =>
        /\ tool.response.success <=> WellFormed(GivenHost)
        /\ tool.response.success =>
              (tool.made[1] = "setDockerHost" /\ tool.response.current_config.dockerHost = GivenHost)

MissingScheme(h) == ~startsWith(h, TCP) /\ WellFormed(TCP \o h)

MissingPort(h) ==
    /\ startsWith(h, TCP)
    /\ FirstColon(h, 7) = 0
    /\ WellFormed(h \o <<":">> \o DefaultPort)

(* C14: an address that lacks only its scheme is rejected with the         *)
(* missing-prefix error and the suggestion tcp:// + input; an address that *)
(* lacks only its port is rejected with a missing-port error and a         *)
(* suggestion that is the input with a port added; hostnames included.     *)
C14_DefectAndSuggestion ==
    (HostGiven /\ SchemaOk(tool.args)) =>
        /\ MissingScheme(GivenHost) =>
              /\ ~tool.response.success
              /\ tool.response.error = "missing tcp:// prefix"
              /\ tool.response.suggestion = TCP \o GivenHost
        /\ MissingPort(GivenHost) =>
              /\ ~tool.response.success
              /\ tool.response.error = "missing port"
              /\ startsWith(tool.response.suggestion, GivenHost \o <<":">>)
              /\ WellFormed(tool.response.suggestion)

ToolStep == \E a \in ToolArgs : handleSetConnection(a)

ListedMalformed(h) ==
    h # EmptyStr /\ h # NullWord /\ (ipOnlyPattern(h) \/ ipWithPortPattern(h) \/ ~startsWith(h, TCP))

(* C15: a docker_set_connection request whose arguments fail the schema,   *)
(* or whose docker_host is a bare IP, an IP:port without scheme or another *)
(* shape without the scheme, is rejected; and a rejected request calls no  *)
(* setter, notifies no listener, rebuilds no registry and stores nothing,  *)
(* the suggestion included, whatever other fields it carries.              *)
C15_RejectedChangesNothing ==
    [][ ToolStep =>
          /\ ~SchemaOk(tool'.args) => ~tool'.response.success
          /\ ("docker_host" \in DOMAIN tool'.args /\ SchemaOk(tool'.args)
              /\ ListedMalformed(tool'.args.docker_host.v)) => ~tool'.response.success
          /\ ~tool'.response.success =>
                /\ tool'.made = <<>>
                /\ config' = config
                /\ notifyLog' = notifyLog
                /\ storeCall' = storeCall
                /\ registryVars' = registryVars
      ]_vars

(* a bare IP sent together with valid allow_local, security_mode,          *)
(* audit_log and log_level was rejected with its suggestion, after an      *)
(* earlier request had set another address, which is still stored          *)
C15_Witness ==
    /\ HostGiven
    /\ GivenHost = Ip
    /\ "allow_local" \in DOMAIN tool.args
    /\ ~tool.response.success
    /\ tool.response.suggestion = TCP \o IpPort
    /\ config.dockerHost = AddrA
    /\ ~config.allowLocal
    /\ config.securityMode = "readonly"

(* C16: a call whose docker_host argument is given and is not a well       *)
(* formed tcp://host:port address contacts no backend and returns a        *)
(* failure.                                                                *)
C16_MalformedParamRejected ==
    (SqCalled /\ Truthy(sq.param) /\ ~WellFormed(sq.param)) =>
        /\ ~sq.contacted
        /\ sq.state = "returned"
        /\ ~sq.result.success

ItemsOf(i) ==
    [k \in 1..Len(mq.outcomes[i].payload) |->
        [item |-> mq.outcomes[i].payload[k], source |-> mq.targets[i].name,
         sourceType |-> mq.targets[i].type]]

RECURSIVE ConcatUpTo(_)
ConcatUpTo(n) ==
    IF n = 0 THEN <<>>
    ELSE ConcatUpTo(n - 1) \o (IF n \in OkSources THEN ItemsOf(n) ELSE <<>>)

(* C18: the combined payload of a list query is the concatenation, in      *)
(* registry order, of the tagged items of exactly the sources that         *)
(* succeeded: nothing of a failed source, nothing dropped or merged.       *)
C18_ConcatInRegistryOrder ==
    (MqReturned /\ mq.op \in ListOps /\ OkSources # {}) =>
        /\ mq.result.hasCombined
        /\ mq.result.combined = ConcatUpTo(Len(mq.targets))

(* two sources answered the same two items: four items, the remote         *)
(* source's first                                                          *)
C18_Witness ==
    /\ MqReturned
    /\ mq.op = "listImages"
    /\ Len(mq.targets) = 2
    /\ OkSources = {1, 2}
    /\ Len(mq.result.combined) = 4
    /\ mq.result.combined[1].item = mq.result.combined[3].item
    /\ mq.result.combined[1].sourceType = "remote"
    /\ mq.result.combined[3].sourceType = "local"

(* ----- formatters ----- *)
CpuDelta == calc.input.cpu_total - calc.input.pre_total

SystemDelta == calc.input.cpu_system - calc.input.pre_system

(* C19 as claimed: the CPU percent is 0 whenever the system delta is not   *)
(* positive and otherwise exactly 100 * cpuDelta / systemDelta; deltas 20  *)
(* and 200 give 10.                                                        *)
C19_CpuPercentExact ==
    calc.fn \in {"formatStats", "getContainerStats"} =>
        /\ SystemDelta <= 0 => calc.output.cpuPercent = 0
        /\ SystemDelta > 0 => calc.output.cpuPercent * SystemDelta = 10000 * CpuDelta
        /\ (CpuDelta = 20 /\ SystemDelta = 200) => calc.output.cpuPercent = 1000

(* C19 as amended, rounded to two decimals:                                *)
(* C19: the CPU percent both clients report is 0 whenever the system       *)
(* delta, current - previous, is not positive, and otherwise the hundredth *)
(* nearest to 100 * cpuDelta / systemDelta; deltas 20 and 200 give 10.     *)
C19_CpuPercent ==
    calc.fn \in {"formatStats", "getContainerStats"} =>
        /\ SystemDelta <= 0 => calc.output.cpuPercent = 0
        /\ SystemDelta > 0 =>
              /\ 2 * (calc.output.cpuPercent * SystemDelta - 10000 * CpuDelta) <= SystemDelta
              /\ 2 * (10000 * CpuDelta - calc.output.cpuPercent * SystemDelta) <= SystemDelta
        /\ (CpuDelta = 20 /\ SystemDelta = 200) => calc.output.cpuPercent = 1000

(* cpuDelta 50 over a system delta of 0, answered 0 *)
C19_Witness ==
    /\ calc.fn = "formatStats"
    /\ CpuDelta = 50
    /\ SystemDelta = 0
    /\ calc.output.cpuPercent = 0

(* the power of 1024 a byte count is divided by, as its exponent *)
LargestPower(b) == b.exp

(* C20: formatBytes gives 0 as "0 B", and any other count as the count     *)
(* over the largest power of 1024 not above it, to two decimals, with the  *)
(* unit of that power, which is one of B, KB, MB, GB, TB; 1536 is "1.5 KB" *)
(* and 1073741824 is "1 GB".                                               *)
C20_BytesUnits ==
    calc.fn = "formatBytes" =>
        /\ calc.output.unit \in {"B", "KB", "MB", "GB", "TB"}
        /\ calc.input = ZeroBytes => calc.output = [unit |-> "B", number |-> [int |-> 0, frac |-> <<>>]]
        /\ calc.input # ZeroBytes =>
              /\ LargestPower(calc.input) + 1 \in DOMAIN sizes
              /\ calc.output.unit = sizes[LargestPower(calc.input) + 1]
              /\ calc.output.number.int \in {calc.input.top, calc.input.top + 1}
        /\ calc.input = [top |-> 1, next |-> 512, exp |-> 1] =>
              calc.output = [unit |-> "KB", number |-> [int |-> 1, frac |-> <<5>>]]
        /\ calc.input = [top |-> 1, next |-> 0, exp |-> 3] =>
              calc.output = [unit |-> "GB", number |-> [int |-> 1, frac |-> <<>>]]

(* ----- registry rebuilds ----- *)
Kind(t) == {i \in 1..Len(sources) : sources[i].type = t}

(* C21: once no local probe is in flight, the registry holds a remote       *)
(* source exactly when dockerHost is a valid tcp address and a local source *)
(* exactly when allowLocal is true and the probe of the latest rebuild      *)
(* succeeded; at no time does it hold a local source while allowLocal is    *)
(* false, or two sources of one kind.                                       *)
C21_LatestConfigOnly ==
    /\ probes = {} =>
          /\ Kind("remote") # {} <=> (Truthy(config.dockerHost) /\ WellFormed(config.dockerHost))
          /\ Kind("local") # {} <=> (config.allowLocal /\ localProbe.ping = "ok")
    /\ ~config.allowLocal => Kind("local") = {}
    /\ Cardinality(Kind("remote")) <= 1
    /\ Cardinality(Kind("local")) <= 1

(* the registries configuration c stands for once its probe has settled:   *)
(* its remote source if it has one, then the local source if the probe      *)
(* succeeded                                                               *)
CompleteRegistries(c) ==
    { initializeRemoteSources(c.remoteHost) \o l :
        l \in {<<>>} \cup (IF c.allowLocal THEN {<<LocalSource>>} ELSE {}) }

(* a query passes ensureInitialized and reads this.sources *)
ReadsRegistry ==
    /\ mq' # mq
    /\ mq.state \in {"idle", "returned", "threw", "awaitInit"}
    /\ mq'.state \in {"fanout", "returned"}

(* the configuration in force when the query now reading was called *)
CalledUnder == IF mq.state = "awaitInit" THEN mq.called ELSE ClientConfig

(* C22: the sources a query fans out to are a complete registry of the     *)
(* configuration in force when the query was called or of the one in force *)
(* when it reads the registry, never a mixture of the two; and the probe   *)
(* of the latest rebuild has settled by the time the query reads.          *)
C22_NoPartialRegistry ==
    [][ ReadsRegistry =>
            /\ localProbe'.ping # "pending"
            /\ mq'.targets \in CompleteRegistries(CalledUnder) \cup CompleteRegistries(ClientConfig')
      ]_vars

(* what of a configuration the client looks at: dockerHost, unset read as *)
(* the empty string, and allowLocal                                        *)
ConnectionOf(c) ==
    [allowLocal |-> c.allowLocal,
     remoteHost |-> IF Truthy(c.dockerHost) THEN c.dockerHost ELSE EmptyStr]

(* C23: the client's remoteHost and allowLocal always equal the store's     *)
(* dockerHost and allowLocal; a call of setDockerHost, setAllowLocal,       *)
(* setMultiple or resetToEnv that changes either of them has, when it       *)
(* returns, emptied the registry, refilled it with the remote source of the *)
(* new address and started the local probe iff allowLocal is true; a call   *)
(* that changes neither leaves sources, probes and initPromise as they were.*)
C23_RebuildOnConnectionChange ==
    /\ [](ClientConfig = ConnectionOf(config))
    /\ [][ MutatorStep =>
              /\ storeCall'.ended = "returned"
              /\ IF ConnectionOf(config') # ConnectionOf(config)
                 THEN /\ sources' = initializeRemoteSources(remoteHost')
                      /\ ~initialized'
                      /\ IF config'.allowLocal
                         THEN /\ initPromise' \notin probes
                              /\ probes' = probes \cup {initPromise'}
                              /\ localProbe' = Started(initPromise')
                         ELSE /\ initPromise' = 0
                              /\ probes' = probes
                              /\ localProbe' = NoProbe
                 ELSE UNCHANGED <<sources, initialized, initPromise, probes, localProbe>>
         ]_vars

(* setMultiple gave a process without environment an address and the local *)
(* source in one call: the registry holds the new remote source and the     *)
(* probe is running, with three subscriptions notified                      *)
C23_Witness ==
    /\ env = EnvNone
    /\ storeCall.op = "setMultiple"
    /\ "dockerHost" \in DOMAIN storeCall.arg
    /\ Len(notifyLog) = 3
    /\ ClientConfig = [allowLocal |-> TRUE, remoteHost |-> AddrB]
    /\ sources = initializeRemoteSources(AddrB)
    /\ Len(sources) = 1
    /\ initPromise \in probes
    /\ localProbe = Started(initPromise)

(* C24: every local source in the registry is the one a successful ping    *)
(* registered, connected and without error; the number of local sources     *)
(* grows only in the step in which a ping succeeds; and the step in which a *)
(* ping fails leaves the registry as it was, so that a query resumed by it  *)
(* fans out to that registry, without a local entry for the failed ping.    *)
C24_LocalOnlyAfterPing ==
    /\ [](\A i \in Kind("local") : sources[i] = LocalSource)
    /\ [][ /\ Cardinality(Kind("local")') > Cardinality(Kind("local")) =>
                  \E p \in probes : ProbeSettle(p, TRUE)
           /\ (\E p \in probes : ProbeSettle(p, FALSE)) =>
                  /\ sources' = sources
                  /\ mq' # mq => mq'.targets = sources
         ]_vars

(* allowLocal is on, the ping of the latest rebuild failed, and the query  *)
(* that waited for it has returned the outcome of the remote source alone  *)
C24_Witness ==
    /\ config.allowLocal
    /\ localProbe.ping = "failed"
    /\ MqReturned
    /\ Kind("local") = {}
    /\ Len(mq.result.sources) = 1
    /\ mq.result.sources[1].type = "remote"

(* ----- aggregator ----- *)
(* C25: a query fans out to the sources registered when it read the        *)
(* registry and keeps that list whatever happens to the registry; while a  *)
(* call is unsettled no aggregate exists; and the aggregate of a returned  *)
(* query lists, for every one of those sources and in their order, that    *)
(* source's own outcome: success iff its call succeeded, error otherwise.  *)
C25_WaitsForEverySource ==
    /\ [](mq.state = "fanout" =>
            /\ Len(mq.outcomes) = Len(mq.targets)
            /\ \E k \in 1..Len(mq.outcomes) : ~mq.outcomes[k].settled
            /\ mq.result = NoSourcesResult)
    /\ []((MqReturned /\ Len(mq.targets) > 0) =>
            /\ \A k \in 1..Len(mq.outcomes) : mq.outcomes[k].settled
            /\ Len(mq.result.sources) = Len(mq.targets)
            /\ \A i \in 1..Len(mq.targets) :
                  /\ mq.result.sources[i].name = mq.targets[i].name
                  /\ mq.result.sources[i].host = mq.targets[i].host
                  /\ mq.result.sources[i].status = (IF i \in OkSources THEN "success" ELSE "error"))
    /\ [][ /\ ReadsRegistry => mq'.targets = sources'
           /\ mq.state = "fanout" =>
                  (mq'.targets = mq.targets /\ mq'.state \in {"fanout", "returned"})
         ]_vars

(* the remote source refused the connection, the local one answered, and   *)
(* the registry was rebuilt to nothing while the calls were running: the   *)
(* aggregate lists both outcomes                                           *)
C25_Witness ==
    /\ MqReturned
    /\ mq.op = "listContainers"
    /\ Len(mq.targets) = 2
    /\ mq.outcomes[1].o = "refused"
    /\ mq.outcomes[2].o = "ok"
    /\ mq.result.sources[1].status = "error"
    /\ mq.result.sources[2].status = "success"
    /\ mq.result.sources[2].data = <<"i1", "i2">>
    /\ sources = <<>>

(* C26: whatever the order in which the sources answered, the aggregate    *)
(* lists the outcomes in the order of the registry the query read, and a    *)
(* by-id lookup that some source answered returns the detail of the first   *)
(* such source in that order, tagged with its name and type.                *)
C26_RegistryOrder ==
    (MqReturned /\ Len(mq.targets) > 0) =>
        /\ \A i \in 1..Len(mq.targets) :
              /\ mq.result.sources[i].name = mq.targets[i].name
              /\ mq.result.sources[i].type = mq.targets[i].type
        /\ (mq.op \in LookupOps /\ OkSources # {}) =>
              mq.result.combined =
                  <<[item |-> "detail", source |-> mq.targets[FirstOk].name,
                     sourceType |-> mq.targets[FirstOk].type]>>

(* both sources hold the container and the local one, second in the        *)
(* registry, answered first: the detail returned is the remote source's    *)
C26_Witness ==
    /\ MqReturned
    /\ mq.op = "getContainer"
    /\ Len(mq.targets) = 2
    /\ OkSources = {1, 2}
    /\ mq.answered = <<2, 1>>
    /\ mq.result.sources[1].type = "remote"
    /\ mq.result.sources[2].type = "local"
    /\ mq.result.combined[1].sourceType = "remote"

(* ----- withTimeout ----- *)
SqEnded == sq.state \in {"returned", "threw"}

(* C27: a pending call has its timer armed for start + timeout and no      *)
(* outcome yet; it ends either with the outcome of its backend call, before *)
(* the deadline, or at the deadline with the timeout failure; a call that   *)
(* has ended has no timer armed, whichever way it ended; and nothing but a  *)
(* new call changes what an ended call returned, a backend response that    *)
(* arrives after the deadline included.                                     *)
C27_SettlesOnce ==
    /\ [](sq.state = "pending" => (sq.timer = sq.start + DEFAULT_TIMEOUT /\ sq.outcome = "none"))
    /\ [](SqEnded => sq.timer = NoTimer)
    /\ [][ /\ (sq.state = "pending" /\ sq' # sq) =>
                  /\ SqEnded'
                  /\ IF sq'.outcome = "deadline"
                     THEN /\ now' = sq.timer
                          /\ sq'.result.error.text = "timeout"
                     ELSE /\ now' < sq.timer
                          /\ sq'.outcome \in Outcomes
                          /\ sq'.result.error.text # "timeout"
                          /\ sq'.result.success <=>
                                (sq'.outcome = "ok"
                                 \/ (sq'.outcome = "malformed" /\ sq.op = "getConnectionStatus"))
           /\ LateSettle => sq' = sq
           /\ (SqEnded /\ sq' # sq) => (sq'.start = now /\ sq'.outcome = "none")
         ]_vars

(* a call ended by its deadline, whose backend call has answered since:    *)
(* the timeout failure is still what the call returned                     *)
C27_Witness ==
    /\ SqTimedOut
    /\ sq.state = "returned"
    /\ sq.op = "listImages"
    /\ sq.timer = NoTimer
    /\ abandoned = 0
    /\ sq.result.error.text = "timeout"

(* ----- what a listener is handed ----- *)
(* C28 as claimed: the fields of an object handed to a listener stay as    *)
(* they were through every later mutator, and an assignment a listener     *)
(* makes to a field of that object leaves the store's configuration as it  *)
(* was.                                                                    *)
C28_ListenerSnapshot ==
    [][ /\ MutatorStep => \A i \in 1..Len(held) : held'[i].val = held[i].val
        /\ WriteHeldStep => config' = config
      ]_vars

(* ----- the guard in front of the tools ----- *)
Benign(args) == checkArguments(args).safe

(* C29 as claimed: a call to a tool of the server's tool list whose        *)
(* arguments hold no blocked pattern is taken to its handler, and a call    *)
(* the guard rejects leaves the client as it was.                          *)
C29_AdvertisedToolsAccepted ==
    /\ []((rpc.toolName \in MULTI_TOOLS /\ Benign(rpc.args)) => rpc.taken = "handler")
    /\ [][ (rpc' # rpc /\ rpc'.taken = "blocked") => (mq' = mq /\ registryVars' = registryVars) ]_vars

(* ----- the connection report ----- *)
StatusReturned == mq.op = "getConnectionStatus" /\ mq.state = "returned"

LatestPingOk == {i \in 1..Len(mq.outcomes) : mq.outcomes[i].o = "ok"}

(* C30 as claimed: in what getConnectionStatus returns, a source reported  *)
(* connected carries no error text, and connectedSources is the number of   *)
(* sources whose ping of this call succeeded.                              *)
C30_ConnectedHasNoError ==
    StatusReturned =>
        /\ \A i \in 1..Len(mq.result.sources) :
              mq.result.sources[i].status = "connected" => mq.result.sources[i].error = ""
        /\ mq.result.connectedSources = Cardinality(LatestPingOk)

====
